---- MODULE Spec2Model ----
(***************************************************************************)
(* Turn orchestration of the mock-conversation server: the StartChat,     *)
(* AnswerChat and EndChat handlers, the chat_users and chats tables they   *)
(* read and write, and the provider calls they make in between.           *)
(*                                                                         *)
(* A Go string that the code builds or takes apart is a sequence of        *)
(* tokens (<<>> is ""); a string that is only passed around and compared   *)
(* (a language code, a voice id, a plaintext secret, a role) is a TLA+     *)
(* string.  A session id (a uuid) is a number of 1..MaxSessions; 0 stands   *)
(* for the empty id of a request without credentials.                      *)
(***************************************************************************)
EXTENDS Integers, Sequences, FiniteSets, TLC

VARIABLES
    chat_users,   \* committed rows of table chat_users
    chats,        \* committed rows of table chats, in autoincrement order
    el,           \* h.el != nil: a speech-synthesis backend is configured
    pc,           \* per handler invocation: the statement it is at
    req,          \* per handler invocation: the request it serves
    loc,          \* per handler invocation: its local variables
    tx,           \* per handler invocation: its open transaction
    resp,         \* per handler invocation: what SendResponse wrote
    logged,       \* per handler invocation: the last log.Printf line
    extraction,   \* a model reply on its way through extractJSON and json.Unmarshal
    health,       \* an invocation of the Status handler
    startLanguage, \* the Language of the StartChatRequest a followed session began with
    screen        \* the client's ChatScreen: its state, recorder and requests

handlerVars == <<chat_users, chats, el, pc, req, loc, tx, resp, logged>>
\* what the handlers of a turn never touch
otherVars == <<extraction, health, startLanguage, screen>>
vars == <<chat_users, chats, el, pc, req, loc, tx, resp, logged, extraction, health,
          startLanguage, screen>>

----------------------------------------------------------------------------
\* Bounds of the model.

\* sessions that may be created
MaxSessions == 2
\* rows of table chats
MaxRows == 5
\* characters of prose before and after the object in a model reply
MaxAffix == 2
\* Answer turns that may be committed to the one session of OverlapSpec
MaxAnswers == 2
\* components the status page may list
MaxComponents == 3
MaxPending == 3

\* two handler invocations may overlap
Req == {1, 2}
IDs == 1..MaxSessions

----------------------------------------------------------------------------
\* Values.

ROLE_SYSTEM == "system"
ROLE_ASSISTANT == "assistant"
ROLE_USER == "user"

\* the plaintext secrets util.GenerateRandom may return, and a client may present
Secret(n) == <<"secret", n>>
PlainSecrets == {Secret(n) : n \in 1..MaxSessions}

\* the voices RandomVoice may return
Voices == {"hpp4J3VqNfWAUOO0d1Us", "CwhRBWXzGAHq8TQ4Fs17"}

\* the request bodies StartChat is tried on
StartRequests ==
    { [Role |-> "guide", Topic |-> "Tokyo", Language |-> "id-ID", SubtitleLanguage |-> ""],
      [Role |-> "guide", Topic |-> "Tokyo", Language |-> "", SubtitleLanguage |-> "es-ES"] }

\* the zero value of data.ChatUser
NoUser == [ID |-> 0, Secret |-> <<>>, Language |-> "", SubtitleLanguage |-> "", Voice |-> ""]

\* the zero value of openai.AnswerChatResult
NoResult ==
    [Transcript |-> <<>>, TranscriptSubtitle |-> <<>>, Response |-> <<>>,
     ResponseSubtitle |-> <<>>, IsLast |-> FALSE]

\* the raw outputs ai.Chat is tried on: prose that holds no JSON object, and
\* JSON objects given by the keys they hold
Prose(t) == [kind |-> "prose", text |-> t, obj |-> <<>>]
Json(o) == [kind |-> "json", text |-> <<>>, obj |-> o]

RawOutputs ==
    { Prose(<<"sorry">>),
      Json("response" :> <<"hello">>),
      Json(("response" :> <<"hello">>) @@ ("isLast" :> FALSE)),
      Json(("response" :> <<"hello">>) @@ ("isLast" :> TRUE)
           @@ ("responseSubtitle" :> <<"hola">>) @@ ("transcript" :> <<"echo">>)),
      Json(("response" :> <<>>) @@ ("isLast" :> FALSE)) }

\* the transcripts ai.Transcribe is tried on
Transcripts == { <<>>, <<"goodbye">> }

----------------------------------------------------------------------------
\* config

CodeToLanguage ==
    ("en-US" :> "en") @@ ("id-ID" :> "id") @@ ("es-ES" :> "es") @@ ("fr-FR" :> "fr")
    @@ ("de-DE" :> "de") @@ ("pt-BR" :> "pt") @@ ("it-IT" :> "it") @@ ("ja-JP" :> "ja")
    @@ ("ko-KR" :> "ko") @@ ("zh-CN" :> "zh") @@ ("ar-SA" :> "ar") @@ ("hi-IN" :> "hi")
    @@ ("ru-RU" :> "ru") @@ ("nl-NL" :> "nl") @@ ("tr-TR" :> "tr")

LanguageToCode ==
    ("en" :> "en-US") @@ ("id" :> "id-ID") @@ ("es" :> "es-ES") @@ ("fr" :> "fr-FR")
    @@ ("de" :> "de-DE") @@ ("pt" :> "pt-BR") @@ ("it" :> "it-IT") @@ ("ja" :> "ja-JP")
    @@ ("ko" :> "ko-KR") @@ ("zh" :> "zh-CN") @@ ("ar" :> "ar-SA") @@ ("hi" :> "hi-IN")
    @@ ("ru" :> "ru-RU") @@ ("nl" :> "nl-NL") @@ ("tr" :> "tr-TR")

LanguageNames ==
    ("en-US" :> "English") @@ ("id-ID" :> "Bahasa Indonesia") @@ ("es-ES" :> "Spanish")
    @@ ("fr-FR" :> "French") @@ ("de-DE" :> "German") @@ ("pt-BR" :> "Portuguese")
    @@ ("it-IT" :> "Italian") @@ ("ja-JP" :> "Japanese") @@ ("ko-KR" :> "Korean")
    @@ ("zh-CN" :> "Chinese (Mandarin)") @@ ("ar-SA" :> "Arabic") @@ ("hi-IN" :> "Hindi")
    @@ ("ru-RU" :> "Russian") @@ ("nl-NL" :> "Dutch") @@ ("tr-TR" :> "Turkish")

GetLanguage(code) ==
    IF code \in DOMAIN CodeToLanguage THEN CodeToLanguage[code] ELSE "en"

\* GetCode by the map read the other way round
GetCode_byCodeMap(language) ==
    IF language \in DOMAIN CodeToLanguage THEN CodeToLanguage[language] ELSE "en-US"

GetCode(language) ==
    IF language \in DOMAIN LanguageToCode THEN LanguageToCode[language] ELSE "en-US"

GetLanguageName(code) ==
    IF code \in DOMAIN LanguageNames THEN LanguageNames[code] ELSE "English"

\* OpenAI.GetDefaultTranscriptLanguage: the transcriptLanguage constant
GetDefaultTranscriptLanguage == "en"


----------------------------------------------------------------------------
\* util: hashing, speech, text generation

NoErr == <<>>

\* util.CreateHash: a salted one-way hash of the plaintext
CreateHash(plain) == <<"salted-hash", plain>>

\* util.CompareHash: nil when the plaintext is the one that was hashed
CompareHash(plain, hashed) == Len(hashed) = 2 /\ hashed[2] = plain

\* util.SanitizeString: the text made fit for the synthesis request
SanitizeString(text) == <<"sanitized">> \o text

\* the default voice of the ElevenLab client
ttsVoice == "cgSgspJ2msm6clMCkdW9"

\* ElevenLab.TextToSpeech: the audio of input spoken by voice
TextToSpeech(input, voice) ==
    <<"mp3", IF voice = "" THEN ttsVoice ELSE voice>> \o input

\* base64.StdEncoding.EncodeToString
Base64(bytes) == <<"base64">> \o bytes

\* GenerateSpeech treating a missing backend as an error
GenerateSpeech_requiresBackend(client, text, voice, ttsOk) ==
    IF ~client THEN [audio |-> <<>>, err |-> <<"unsupported client">>]
    ELSE IF ~ttsOk THEN [audio |-> <<>>, err |-> <<"unexpected status code">>]
    ELSE [audio |-> Base64(TextToSpeech(SanitizeString(text), voice)), err |-> NoErr]

\* util.GenerateSpeech(el, text, voice); ttsOk: the backend answered 200
GenerateSpeech(client, text, voice, ttsOk) ==
    IF ~client THEN [audio |-> <<>>, err |-> NoErr]
    ELSE IF ~ttsOk THEN [audio |-> <<>>, err |-> <<"unexpected status code">>]
    ELSE [audio |-> Base64(TextToSpeech(SanitizeString(text), voice)), err |-> NoErr]

\* openai.GetSystemPrompt: the template filled with role, topic and language
GetSystemPrompt(role, topic, language) == <<"persona", role, topic, language>>

\* what ai.Chat may return: an error, or a raw output
ChatReplies ==
    {[err |-> <<"no valid response returned">>, raw |-> Prose(<<>>)]}
    \cup {[err |-> NoErr, raw |-> o] : o \in RawOutputs}

Field(obj, key, zero) == IF key \in DOMAIN obj THEN obj[key] ELSE zero

\* json.Unmarshal into an openai.AnswerChatResult: absent fields keep their zero value
Unmarshal(raw) ==
    IF raw.kind # "json" THEN [err |-> <<"invalid character">>, result |-> NoResult]
    ELSE [err |-> NoErr,
          result |-> [Transcript |-> Field(raw.obj, "transcript", <<>>),
                      TranscriptSubtitle |-> Field(raw.obj, "transcriptSubtitle", <<>>),
                      Response |-> Field(raw.obj, "response", <<>>),
                      ResponseSubtitle |-> Field(raw.obj, "responseSubtitle", <<>>),
                      IsLast |-> Field(raw.obj, "isLast", FALSE)]]

\* GenerateStartChat without its check of an empty greeting
GenerateStartChat_noEmptyCheck(role, topic, language, subtitleLanguage, chat) ==
    LET parsed == Unmarshal(chat.raw)
    IN  IF chat.err # NoErr
            THEN [systemPrompt |-> <<>>, result |-> NoResult, err |-> chat.err]
        ELSE IF parsed.err # NoErr
            THEN [systemPrompt |-> <<>>, result |-> NoResult,
                  err |-> <<"failed to parse initial chat JSON: ">> \o parsed.err
                          \o <<", raw: ">> \o chat.raw.text]
        ELSE [systemPrompt |-> GetSystemPrompt(role, topic, language),
              result |-> parsed.result, err |-> NoErr]

\* util.GenerateStartChat; chat: what ai.Chat returns for the two messages
GenerateStartChat(role, topic, language, subtitleLanguage, chat) ==
    LET systemPrompt == GetSystemPrompt(role, topic, language)
        parsed == Unmarshal(chat.raw)
        failed(e) == [systemPrompt |-> <<>>, result |-> NoResult, err |-> e]
    IN  IF chat.err # NoErr THEN failed(chat.err)
        ELSE IF parsed.err # NoErr
            THEN failed(<<"failed to parse initial chat JSON: ">> \o parsed.err
                        \o <<", raw: ">> \o chat.raw.text)
        ELSE IF parsed.result.Response = <<>>
            THEN failed(<<"empty initial chat response">>)
        ELSE [systemPrompt |-> systemPrompt, result |-> parsed.result, err |-> NoErr]

\* the instruction GenerateAnswerChat adds to the system prompt; it names the
\* subtitle fields when a subtitle language is given
JsonInstruction(subtitleLanguage) ==
    IF subtitleLanguage = "" THEN <<"json-instruction">>
    ELSE <<"json-instruction", "subtitles", subtitleLanguage>>

\* AnswerMessages with the instruction appended to every message of the copy
AnswerMessages_everyMessage(history, transcript, subtitleLanguage) ==
    LET copied == [i \in DOMAIN history |->
                     [history[i] EXCEPT !.Content =
                          @ \o <<"\n\n">> \o JsonInstruction(subtitleLanguage)]]
    IN  Append(copied, [Role |-> ROLE_USER, Content |-> transcript])

\* the messages util.GenerateAnswerChat hands to ai.Chat: the history with the
\* instruction appended to its first system message, then the transcript as a
\* user message
AnswerMessages(history, transcript, subtitleLanguage) ==
    LET systems == {i \in DOMAIN history : history[i].Role = ROLE_SYSTEM}
        first == CHOOSE i \in systems : \A j \in systems : i <= j
        copied == [i \in DOMAIN history |->
                     IF systems # {} /\ i = first
                     THEN [history[i] EXCEPT !.Content =
                               @ \o <<"\n\n">> \o JsonInstruction(subtitleLanguage)]
                     ELSE history[i]]
    IN  Append(copied, [Role |-> ROLE_USER, Content |-> transcript])

\* the instruction GenerateEndChat adds to the system prompt
EndInstruction(subtitleLanguage) ==
    IF subtitleLanguage = "" THEN <<"end-instruction">>
    ELSE <<"end-instruction", "subtitles", subtitleLanguage>>

\* the messages util.GenerateEndChat hands to ai.Chat: the history with the
\* instruction appended to its first system message
EndMessages(history, subtitleLanguage) ==
    LET systems == {i \in DOMAIN history : history[i].Role = ROLE_SYSTEM}
        first == CHOOSE i \in systems : \A j \in systems : i <= j
    IN  [i \in DOMAIN history |->
            IF systems # {} /\ i = first
            THEN [history[i] EXCEPT !.Content =
                      @ \o <<"\n\n">> \o EndInstruction(subtitleLanguage)]
            ELSE history[i]]

\* GenerateAnswerChat failing on a reply without the subtitle that was asked for
GenerateAnswerChat_requiresSubtitle(history, transcript, subtitleLanguage, chat) ==
    LET parsed == Unmarshal(chat.raw)
        failed(e) == [result |-> NoResult, err |-> e]
    IN  IF chat.err # NoErr THEN failed(chat.err)
        ELSE IF parsed.err # NoErr
            THEN failed(<<"failed to parse answer chat JSON: ">> \o parsed.err
                        \o <<", raw: ">> \o chat.raw.text)
        ELSE IF parsed.result.Response = <<>>
            THEN failed(<<"empty chat response">>)
        ELSE IF subtitleLanguage # "" /\ parsed.result.ResponseSubtitle = <<>>
            THEN failed(<<"empty subtitle">>)
        ELSE [result |-> parsed.result, err |-> NoErr]

\* util.GenerateAnswerChat; chat: what ai.Chat returns for the messages
GenerateAnswerChat(history, transcript, subtitleLanguage, chat) ==
    LET parsed == Unmarshal(chat.raw)
        failed(e) == [result |-> NoResult, err |-> e]
    IN  IF chat.err # NoErr THEN failed(chat.err)
        ELSE IF parsed.err # NoErr
            THEN failed(<<"failed to parse answer chat JSON: ">> \o parsed.err
                        \o <<", raw: ">> \o chat.raw.text)
        ELSE IF parsed.result.Response = <<>>
            THEN failed(<<"empty chat response">>)
        ELSE [result |-> parsed.result, err |-> NoErr]

\* util.GenerateEndChat; chat: what ai.Chat returns for the messages
GenerateEndChat(history, subtitleLanguage, chat) ==
    LET parsed == Unmarshal(chat.raw)
        failed(e) == [result |-> NoResult, err |-> e]
    IN  IF chat.err # NoErr THEN failed(chat.err)
        ELSE IF parsed.err # NoErr
            THEN failed(<<"failed to parse end chat JSON: ">> \o parsed.err
                        \o <<", raw: ">> \o chat.raw.text)
        ELSE [result |-> [parsed.result EXCEPT !.IsLast = TRUE], err |-> NoErr]

----------------------------------------------------------------------------
\* util.extractJSON.  The text of a model reply is a sequence of characters;
\* the fence marker (three backquotes) is one element, as are a word of prose
\* ("x", "json") and the text of an object's member ("m").  An index is a
\* position of 1..Len(s), and 0 where Go's strings.Index returns -1.

Fence == "fence"
Space == {" ", "\n"}

\* strings.TrimSpace
TrimSpace(s) ==
    LET solid == {i \in DOMAIN s : s[i] \notin Space}
        lo == CHOOSE i \in solid : \A j \in solid : i <= j
        hi == CHOOSE i \in solid : \A j \in solid : j <= i
    IN  IF solid = {} THEN <<>> ELSE SubSeq(s, lo, hi)

\* strings.HasPrefix(s, prefix) for a prefix of one element
HasPrefix(s, c) == Len(s) > 0 /\ s[1] = c

\* strings.Index(s, c)
Index(s, c) ==
    LET at == {i \in DOMAIN s : s[i] = c}
    IN  IF at = {} THEN 0 ELSE CHOOSE i \in at : \A j \in at : i <= j

\* strings.LastIndex(s, c)
LastIndex(s, c) ==
    LET at == {i \in DOMAIN s : s[i] = c}
    IN  IF at = {} THEN 0 ELSE CHOOSE i \in at : \A j \in at : j <= i

\* extractJSON slicing whenever both braces occur, in whatever order
extractJSON_anyOrder(raw) ==
    LET s == TrimSpace(raw)
        nl == Index(s, "\n")
        s1 == IF nl # 0 THEN SubSeq(s, nl + 1, Len(s)) ELSE s
        close == LastIndex(s1, Fence)
        s2 == IF close # 0 THEN SubSeq(s1, 1, close - 1) ELSE s1
        start == Index(s, "{")
        end == LastIndex(s, "}")
    IN  IF HasPrefix(s, Fence) THEN TrimSpace(s2)
        ELSE IF start # 0 /\ end # 0 THEN SubSeq(s, start, end)
        ELSE s

\* extractJSON slicing up to the first closing brace
extractJSON_firstClose(raw) ==
    LET s == TrimSpace(raw)
        nl == Index(s, "\n")
        s1 == IF nl # 0 THEN SubSeq(s, nl + 1, Len(s)) ELSE s
        close == LastIndex(s1, Fence)
        s2 == IF close # 0 THEN SubSeq(s1, 1, close - 1) ELSE s1
        start == Index(s, "{")
        end == Index(s, "}")
    IN  IF HasPrefix(s, Fence) THEN TrimSpace(s2)
        ELSE IF start # 0 /\ end # 0 /\ end > start THEN SubSeq(s, start, end)
        ELSE s

\* util.extractJSON
extractJSON(raw) ==
    LET s == TrimSpace(raw)
        nl == Index(s, "\n")
        s1 == IF nl # 0 THEN SubSeq(s, nl + 1, Len(s)) ELSE s
        close == LastIndex(s1, Fence)
        s2 == IF close # 0 THEN SubSeq(s1, 1, close - 1) ELSE s1
        start == Index(s, "{")
        end == LastIndex(s, "}")
    IN  IF HasPrefix(s, Fence) THEN TrimSpace(s2)
        ELSE IF start # 0 /\ end # 0 /\ end > start THEN SubSeq(s, start, end)
        ELSE s

\* json.Unmarshal of a text: white space around the value is skipped, and the
\* value must be one object: an opening brace that its own closing brace ends
\* the text, holding members and, after a member's key, nested objects.  The
\* object parsed is the text without its white space.
Depth(s, i) ==
    Cardinality({j \in 1..i : s[j] = "{"}) - Cardinality({j \in 1..i : s[j] = "}"})

ParseObject(text) ==
    LET t == SelectSeq(text, LAMBDA c : c \notin Space)
        ok == /\ Len(t) >= 2
              /\ t[1] = "{"
              /\ \A i \in DOMAIN t : t[i] \in {"{", "}", "m"}
              /\ \A i \in 2..Len(t) : t[i] = "{" => t[i - 1] = "m"
              /\ \A i \in 1..(Len(t) - 1) : Depth(t, i) > 0
              /\ Depth(t, Len(t)) = 0
    IN  IF ok THEN [err |-> NoErr, obj |-> t]
        ELSE [err |-> <<"invalid character">>, obj |-> <<>>]

\* the replies a model may give: an object, bare or in a fenced block, with or
\* without prose inside the fence, or no object at all, between a prefix and a
\* suffix of at most MaxAffix characters
Chars == {Fence, "\n", "{", "}", "x"}
Affixes == UNION {[1..n -> Chars] : n \in 0..MaxAffix}
Payloads == { <<"{", "m", "}">>, <<"{", "m", "{", "m", "}", "}">> }
Forms == {"bare", "fenced", "fenced-prose"}

Fenced(payload) == <<Fence, "json", "\n">> \o payload \o <<"\n", Fence>>

Core(form, payload) ==
    CASE form = "bare" -> payload
      [] form = "fenced" -> Fenced(payload)
      [] form = "fenced-prose" ->
            <<Fence, "json", "\n", "x", " ">> \o payload \o <<" ", "x", "\n", Fence>>
      [] OTHER -> <<>>

NoParse == [err |-> NoErr, obj |-> <<>>]

NoExtraction ==
    [at |-> "none", prefix |-> <<>>, form |-> "none", payload |-> <<>>, suffix |-> <<>>,
     rawResponse |-> <<>>, jsonStr |-> <<>>, parsed |-> NoParse]

----------------------------------------------------------------------------
\* OpenAI.Status and the Status handler.

STATUS_OPERATIONAL == "operational"
STATUS_DEGRADED_PERFORMANCE == "degraded_performance"
STATUS_PARTIAL_OUTAGE == "partial_outage"
STATUS_MAJOR_OUTAGE == "major_outage"
STATUS_UNKNOWN == "unknown"

targetComponents == {"Chat Completions", "Audio"}

\* the components a status page may list
Components ==
    [Name : targetComponents \cup {"Images"},
     Status : {STATUS_OPERATIONAL, STATUS_DEGRADED_PERFORMANCE,
               STATUS_PARTIAL_OUTAGE, STATUS_MAJOR_OUTAGE}]
\* the loop of OpenAI.Status from component i on
RECURSIVE StatusLoop(_, _, _, _)
StatusLoop(components, i, worstStatus, foundAny) ==
    IF i > Len(components)
        THEN IF ~foundAny THEN STATUS_UNKNOWN ELSE worstStatus
    ELSE IF components[i].Name \notin targetComponents
        THEN StatusLoop(components, i + 1, worstStatus, foundAny)
    ELSE IF components[i].Status = STATUS_MAJOR_OUTAGE
        THEN STATUS_MAJOR_OUTAGE
    ELSE IF components[i].Status = STATUS_PARTIAL_OUTAGE
        THEN StatusLoop(components, i + 1,
                        IF worstStatus # STATUS_MAJOR_OUTAGE THEN STATUS_PARTIAL_OUTAGE
                        ELSE worstStatus, TRUE)
    ELSE IF components[i].Status = STATUS_DEGRADED_PERFORMANCE
        THEN StatusLoop(components, i + 1,
                        IF worstStatus = STATUS_OPERATIONAL THEN STATUS_DEGRADED_PERFORMANCE
                        ELSE worstStatus, TRUE)
    ELSE StatusLoop(components, i + 1, worstStatus, TRUE)

\* OpenAI.Status without the foundAny check: a page that lists neither target
\* reads as operational
Status_assumesFound(fetch, components) ==
    IF fetch = "error" THEN [status |-> STATUS_UNKNOWN, err |-> <<"request failed">>]
    ELSE IF fetch = "non200" THEN [status |-> STATUS_UNKNOWN, err |-> NoErr]
    ELSE [status |-> StatusLoop(components, 1, STATUS_OPERATIONAL, TRUE), err |-> NoErr]

\* OpenAI.Status on the status page's answer: fetch is "error" when the request
\* failed, "non200" for another status code, "ok" with the components
Status(fetch, components) ==
    IF fetch = "error" THEN [status |-> STATUS_UNKNOWN, err |-> <<"request failed">>]
    ELSE IF fetch = "non200" THEN [status |-> STATUS_UNKNOWN, err |-> NoErr]
    ELSE [status |-> StatusLoop(components, 1, STATUS_OPERATIONAL, FALSE), err |-> NoErr]

\* handler.Status: apiState, a *bool written "true", "false" or "null"
ApiState(status) ==
    IF status = STATUS_OPERATIONAL THEN "true"
    ELSE IF status \in {STATUS_DEGRADED_PERFORMANCE, STATUS_PARTIAL_OUTAGE,
                        STATUS_MAJOR_OUTAGE} THEN "false"
    ELSE "null"

\* no Status request yet: no StatusResponse written
NoHealth ==
    [at |-> "none", components |-> <<>>, keyValid |-> FALSE, fetch |-> "",
     response |-> [code |-> 0, Server |-> FALSE, Key |-> FALSE, API |-> "null",
                   ApiStatus |-> ""]]

----------------------------------------------------------------------------
\* client: the ChatScreen component

\* ChatScreen when it mounts on a started session: the state hooks, the
\* store's hasEnded, mediaRecorderRef.current, and what is under way:
\* acquiring counts the startRecording calls awaiting getUserMedia, stopped the
\* recordings stopped whose onstop handler has not called sendAudioToServer
\* yet, answers and ends the fetches awaiting their response
Mounted ==
    [isRecording |-> FALSE, isProcessing |-> FALSE, hasStarted |-> FALSE,
     hasEnded |-> FALSE, recorder |-> "none",
     acquiring |-> 0, stopped |-> 0, answers |-> 0, ends |-> 0]

----------------------------------------------------------------------------
\* data: the tables and the transaction of one handler invocation

Entry(id, role, text, audio) ==
    [chat_user_id |-> id, role |-> role, text |-> text, audio |-> audio]

\* no transaction, or one that was rolled back
NoTx == [open |-> FALSE, users |-> <<>>, chats |-> <<>>]

\* Database.BeginTx
BeginTx == [open |-> TRUE, users |-> <<>>, chats |-> <<>>]

\* CreateChatUser with an id that is computed once and not per call
CreateChatUser_fixedId(id, secret, language, subtitleLanguage, voice) ==
    [ID |-> 1, Secret |-> secret, Language |-> language,
     SubtitleLanguage |-> subtitleLanguage, Voice |-> voice]

\* Database.CreateChatUser(tx, ...): the row it inserts, with a fresh uuid
CreateChatUser(id, secret, language, subtitleLanguage, voice) ==
    [ID |-> id, Secret |-> secret, Language |-> language,
     SubtitleLanguage |-> subtitleLanguage, Voice |-> voice]

\* Database.GetChatUser(id): the rows SELECT ... WHERE id = ? finds
GetChatUser(id) == {u \in chat_users : u.ID = id}

\* SELECT ... FROM chats WHERE chat_user_id = id ORDER BY id
RowsOf(table, id) == SelectSeq(table, LAMBDA e : e.chat_user_id = id)

\* Database.GetChatsByChatUserID(id): the session's rows in autoincrement order
GetChatsByChatUserID(id) == RowsOf(chats, id)

\* Database.CreateChats(tx, id, entries): the first n entries are inserted
CreateChats(t, entries, n) == [t EXCEPT !.chats = t.chats \o SubSeq(entries, 1, n)]

\* tx.Commit: the rows written in the transaction become visible together
CommitUsers(t) == chat_users \cup {t.users[i] : i \in DOMAIN t.users}
CommitChats(t) == chats \o t.chats

\* the tables after the handler's deferred tx.Rollback() ran on transaction t:
\* nothing that t still holds becomes visible
Rollback(t) == [chat_users |-> chat_users, chats |-> chats]

\* util.ConvertToChatMessage
ConvertToChatMessage(entries) ==
    [i \in DOMAIN entries |-> [Role |-> entries[i].role, Content |-> entries[i].text]]

----------------------------------------------------------------------------
\* The handlers.  Each invocation r runs one handler from "idle" to "done";
\* its locals hold Go's zero values until the handler assigns them.

NoBody == [Role |-> "", Topic |-> "", Language |-> "", SubtitleLanguage |-> ""]

NoReq == [kind |-> "none", body |-> NoBody, userID |-> 0, userSecret |-> <<>>]

NoLoc ==
    [chatLanguage |-> "", subtitleLanguage |-> "", systemPrompt |-> <<>>,
     result |-> NoResult, voice |-> "", audio |-> <<>>, plainSecret |-> <<>>,
     hashed |-> <<>>, newUser |-> NoUser, user |-> NoUser, entries |-> <<>>,
     transcript |-> <<>>, rawJSON |-> Prose(<<>>), messages |-> <<>>]

NoData == [kind |-> "nil"]

NoResp == [status |-> 0, message |-> <<>>, data |-> NoData]

\* the rows a handler writes when it succeeds
BatchSize(kind) == IF kind = "end" THEN 1 ELSE 2

Running == {r \in Req : pc[r] \notin {"idle", "done"}}

RECURSIVE Reserved(_)
Reserved(S) ==
    IF S = {} THEN 0
    ELSE LET r == CHOOSE x \in S : TRUE
         IN  BatchSize(req[r].kind) + Reserved(S \ {r})

\* the model accepts a request only while its rows still fit the bound
RoomFor(kind) == Len(chats) + Reserved(Running) + BatchSize(kind) <= MaxRows

\* the model accepts a Start only while its session still fits the bound
RoomForSession ==
    Cardinality(chat_users) + Cardinality({r \in Running : req[r].kind = "start"})
        < MaxSessions

\* uuid.New: an id that no session and no running Start holds.  Ids are
\* interchangeable, so the model takes the first such one.
UuidsInUse == {u.ID : u \in chat_users} \cup {loc[q].newUser.ID : q \in Req}

NewUuid ==
    CHOOSE n \in IDs : n \notin UuidsInUse /\ \A m \in 1..(n - 1) : m \in UuidsInUse

\* util.GenerateRandom: a secret that no session and no running Start holds.
\* Secrets are interchangeable, so the model takes the first such one.
SecretsInUse ==
    {u.Secret[2] : u \in chat_users} \cup {loc[q].plainSecret : q \in Req}

GenerateRandom ==
    Secret(CHOOSE n \in 1..MaxSessions :
                /\ Secret(n) \notin SecretsInUse
                /\ \A m \in 1..(n - 1) : Secret(m) \in SecretsInUse)

\* log.Printf(line) and util.SendResponse(w, data, message, status): the
\* handler is at its return.  The locals of an invocation that failed are
\* not read again, and the model forgets them.
Respond(r, status, message, data, line) ==
    /\ pc' = [pc EXCEPT ![r] = "done"]
    /\ resp' = [resp EXCEPT ![r] = [status |-> status, message |-> message, data |-> data]]
    /\ logged' = [logged EXCEPT ![r] = line]
    /\ loc' = [loc EXCEPT ![r] = IF status = 200 THEN @ ELSE NoLoc]

\* a step before the handler began a transaction
NoTxYet == UNCHANGED <<chat_users, chats, tx>>

\* a write in the transaction failed after t was written: nothing is visible yet
Failed(r, t) ==
    /\ tx' = [tx EXCEPT ![r] = t]
    /\ UNCHANGED <<chat_users, chats>>

\* a commit that puts the rows of the transaction before the committed ones
Commit_prepends(r) ==
    /\ chat_users' = CommitUsers(tx[r])
    /\ chats' = tx[r].chats \o chats
    /\ tx' = [tx EXCEPT ![r] = NoTx]

\* tx.Commit() returned nil: the transaction is over
Commit(r) ==
    /\ chat_users' = CommitUsers(tx[r])
    /\ chats' = CommitChats(tx[r])
    /\ tx' = [tx EXCEPT ![r] = NoTx]

\* the handler goes on to statement next with its locals updated
Goto(r, next, locals) ==
    /\ pc' = [pc EXCEPT ![r] = next]
    /\ loc' = [loc EXCEPT ![r] = locals]
    /\ UNCHANGED <<resp, logged>>

\* The statements at which a handler reads or writes what another invocation
\* may write: the tables.  Every other step touches only
\* the invocation's own locals and commutes with the steps of the other
\* invocation, so the model runs it before the other invocation moves on.
SharedPcs ==
    {"idle", "s_commit", "a_getuser", "a_history", "a_commit",
     "e_getuser", "e_history", "e_commit"}

Scheduled(r) == \A q \in Req \ {r} : pc[q] \in SharedPcs

\* invocation r is at statement at and is the one to move
At(r, at) == pc[r] = at /\ Scheduled(r)

Init ==
    /\ chat_users = {}
    /\ chats = <<>>
    /\ el \in BOOLEAN
    /\ pc = [r \in Req |-> "idle"]
    /\ req = [r \in Req |-> NoReq]
    /\ loc = [r \in Req |-> NoLoc]
    /\ tx = [r \in Req |-> NoTx]
    /\ resp = [r \in Req |-> NoResp]
    /\ logged = [r \in Req |-> <<>>]
    /\ extraction = NoExtraction
    /\ health = NoHealth /\ screen = Mounted /\ startLanguage = "none"

\* ---- StartChat

\* decode the body, resolve the languages
StartChat(r) ==
    /\ At(r, "idle")
    /\ UNCHANGED <<el, otherVars>>
    /\ NoTxYet
    /\ \/ /\ req' = [req EXCEPT ![r] = [NoReq EXCEPT !.kind = "start"]]
          /\ Respond(r, 400, <<"failed to read request">>, NoData,
                     <<"failed to read start chat request body">>)
       \/ \E body \in StartRequests :
            /\ RoomFor("start")
            /\ RoomForSession
            /\ req' = [req EXCEPT ![r] = [NoReq EXCEPT !.kind = "start", !.body = body]]
            /\ Goto(r, "s_generate",
                    [loc[r] EXCEPT
                        !.chatLanguage =
                            IF body.Language # "" THEN GetLanguage(body.Language)
                            ELSE GetDefaultTranscriptLanguage,
                        !.subtitleLanguage =
                            IF body.SubtitleLanguage # ""
                            THEN GetLanguageName(body.SubtitleLanguage) ELSE ""])

StartGenerate(r) ==
    /\ At(r, "s_generate")
    /\ UNCHANGED <<el, otherVars, req>>
    /\ NoTxYet
    /\ \E chat \in ChatReplies :
        LET body == req[r].body
            g == GenerateStartChat(body.Role, body.Topic, GetLanguageName(body.Language),
                                   loc[r].subtitleLanguage, chat)
        IN  \/ /\ g.err # NoErr
               /\ Respond(r, 500, <<"failed to prepare chat">>, NoData,
                          <<"failed to get system prompt or initial text: ">> \o g.err)
            \/ /\ g.err = NoErr
               /\ Goto(r, "s_speech",
                       [loc[r] EXCEPT !.systemPrompt = g.systemPrompt, !.result = g.result,
                                       !.rawJSON = chat.raw])

\* pick the session's voice, synthesize the greeting
StartSpeech(r) ==
    /\ At(r, "s_speech")
    /\ UNCHANGED <<el, otherVars, req>>
    /\ NoTxYet
    /\ \E voice \in (IF el THEN Voices ELSE {""}), ttsOk \in BOOLEAN :
        LET g == GenerateSpeech(el, loc[r].result.Response, voice, ttsOk)
        IN  \/ /\ g.err # NoErr
               /\ Respond(r, 500, <<"failed to generate speech">>, NoData,
                          <<"failed to generate speech: ">> \o g.err)
            \/ /\ g.err = NoErr
               /\ Goto(r, "s_hash", [loc[r] EXCEPT !.voice = voice, !.audio = g.audio])

\* StartHash keeping the plaintext where the hash belongs
StartHash_plain(r) ==
    /\ At(r, "s_hash")
    /\ UNCHANGED <<el, otherVars, req>>
    /\ NoTxYet
    /\ \/ Respond(r, 500, <<"failed to prepare chat">>, NoData, <<"failed to create hash">>)
       \/ Goto(r, "s_begin", [loc[r] EXCEPT !.plainSecret = GenerateRandom,
                                             !.hashed = GenerateRandom])

\* mint the secret and hash it
StartHash(r) ==
    /\ At(r, "s_hash")
    /\ UNCHANGED <<el, otherVars, req>>
    /\ NoTxYet
    /\ \/ Respond(r, 500, <<"failed to prepare chat">>, NoData, <<"failed to create hash">>)
       \/ Goto(r, "s_begin", [loc[r] EXCEPT !.plainSecret = GenerateRandom,
                                             !.hashed = CreateHash(GenerateRandom)])

StartBeginTx(r) ==
    /\ At(r, "s_begin")
    /\ UNCHANGED <<el, otherVars, req>>
    /\ \/ /\ NoTxYet
          /\ Respond(r, 500, <<"failed to create new chat">>, NoData,
                     <<"failed to begin transaction">>)
       \/ /\ Goto(r, "s_user", loc[r])
          /\ tx' = [tx EXCEPT ![r] = BeginTx]
          /\ UNCHANGED <<chat_users, chats>>

\* StartCreateUser inserting through the connection instead of the transaction
StartCreateUser_autocommit(r) ==
    /\ At(r, "s_user")
    /\ UNCHANGED <<el, otherVars, req>>
    /\ \/ /\ Failed(r, tx[r])
          /\ Respond(r, 500, <<"failed to create new chat">>, NoData,
                     <<"failed to create new chat">>)
       \/ LET newUser == CreateChatUser(NewUuid, loc[r].hashed, loc[r].chatLanguage,
                                        GetLanguage(req[r].body.SubtitleLanguage),
                                        loc[r].voice)
          IN  /\ Goto(r, "s_chats", [loc[r] EXCEPT !.newUser = newUser])
              /\ chat_users' = chat_users \cup {newUser}
              /\ UNCHANGED <<tx, chats>>

StartCreateUser(r) ==
    /\ At(r, "s_user")
    /\ UNCHANGED <<el, otherVars, req>>
    /\ \/ /\ Failed(r, tx[r])
          /\ Respond(r, 500, <<"failed to create new chat">>, NoData,
                     <<"failed to create new chat">>)
       \/ LET newUser == CreateChatUser(NewUuid, loc[r].hashed, loc[r].chatLanguage,
                                        GetLanguage(req[r].body.SubtitleLanguage),
                                        loc[r].voice)
          IN  /\ Goto(r, "s_chats", [loc[r] EXCEPT !.newUser = newUser])
              /\ tx' = [tx EXCEPT ![r].users = Append(@, newUser)]
              /\ UNCHANGED <<chat_users, chats>>

\* StartEntries with the greeting before the system prompt
StartEntries_greetingFirst(r) ==
    << Entry(loc[r].newUser.ID, ROLE_ASSISTANT, loc[r].result.Response, loc[r].audio),
       Entry(loc[r].newUser.ID, ROLE_SYSTEM, loc[r].systemPrompt, <<>>) >>

StartEntries(r) ==
    << Entry(loc[r].newUser.ID, ROLE_SYSTEM, loc[r].systemPrompt, <<>>),
       Entry(loc[r].newUser.ID, ROLE_ASSISTANT, loc[r].result.Response, loc[r].audio) >>

\* CreateChats fails after n of the entries, or inserts both
StartCreateChats(r) ==
    /\ At(r, "s_chats")
    /\ UNCHANGED <<el, otherVars, req>>
    /\ \/ \E n \in 0..1 :
            /\ Failed(r, CreateChats(tx[r], StartEntries(r), n))
            /\ Respond(r, 500, <<"failed to create chat">>, NoData,
                       <<"failed to create chat">>)
       \/ /\ Goto(r, "s_commit", loc[r])
          /\ tx' = [tx EXCEPT ![r] = CreateChats(tx[r], StartEntries(r), 2)]
          /\ UNCHANGED <<chat_users, chats>>

\* StartResponse returning the stored hash in place of the plaintext secret
StartResponse_returnsHash(r) ==
    [kind |-> "start", ID |-> loc[r].newUser.ID, Secret |-> loc[r].hashed,
     Language |-> req[r].body.Language,
     Chat |-> [Text |-> loc[r].result.Response, Audio |-> loc[r].audio,
               Subtitle |-> loc[r].result.ResponseSubtitle]]

StartResponse(r) ==
    [kind |-> "start", ID |-> loc[r].newUser.ID, Secret |-> loc[r].plainSecret,
     Language |-> req[r].body.Language,
     Chat |-> [Text |-> loc[r].result.Response, Audio |-> loc[r].audio,
               Subtitle |-> loc[r].result.ResponseSubtitle]]

StartCommit(r) ==
    /\ At(r, "s_commit")
    /\ UNCHANGED <<el, otherVars, req>>
    /\ \/ /\ Failed(r, tx[r])
          /\ Respond(r, 500, <<"failed to create new chat">>, NoData,
                     <<"failed to commit transaction">>)
       \/ /\ Commit(r)
          /\ Respond(r, 200, <<"a new chat created">>, StartResponse(r), <<>>)

\* ---- AnswerChat

\* the credentials the middleware put in the request context
AnswerChat(r) ==
    /\ At(r, "idle")
    /\ UNCHANGED <<el, otherVars>>
    /\ NoTxYet
    /\ \E userID \in 0..MaxSessions, userSecret \in PlainSecrets \cup {<<>>} :
        /\ RoomFor("answer")
        /\ req' = [req EXCEPT ![r] = [NoReq EXCEPT !.kind = "answer", !.userID = userID,
                                                   !.userSecret = userSecret]]
        /\ \/ /\ (userID = 0 \/ userSecret = <<>>)
              /\ Respond(r, 401, <<"missing required authentication">>, NoData,
                         <<"user ID or secret is missing">>)
           \/ /\ ~(userID = 0 \/ userSecret = <<>>)
              /\ Goto(r, "a_getuser", loc[r])

\* AnswerGetUser going on to the history without the comparison of the secret
AnswerGetUser_skipsCompare(r) ==
    /\ At(r, "a_getuser")
    /\ UNCHANGED <<el, otherVars, req>>
    /\ NoTxYet
    /\ \/ /\ GetChatUser(req[r].userID) = {}
          /\ Respond(r, 404, <<"failed to get chat user">>, NoData,
                     <<"failed to get chat user: ", "sql: no rows in result set">>)
       \/ Respond(r, 404, <<"failed to get chat user">>, NoData,
                  <<"failed to get chat user: ", "database error">>)
       \/ \E user \in GetChatUser(req[r].userID) :
            Goto(r, "a_history", [loc[r] EXCEPT !.user = user])

\* h.db.GetChatUser: no row, or the query failed
AnswerGetUser(r) ==
    /\ At(r, "a_getuser")
    /\ UNCHANGED <<el, otherVars, req>>
    /\ NoTxYet
    /\ \/ /\ GetChatUser(req[r].userID) = {}
          /\ Respond(r, 404, <<"failed to get chat user">>, NoData,
                     <<"failed to get chat user: ", "sql: no rows in result set">>)
       \/ Respond(r, 404, <<"failed to get chat user">>, NoData,
                  <<"failed to get chat user: ", "database error">>)
       \/ \E user \in GetChatUser(req[r].userID) :
            Goto(r, "a_compare", [loc[r] EXCEPT !.user = user])

\* AnswerCompareHash voiding the session's secret after a failed comparison
AnswerCompareHash_lockout(r) ==
    /\ At(r, "a_compare")
    /\ UNCHANGED <<el, otherVars, req, chats, tx>>
    /\ \/ /\ ~CompareHash(req[r].userSecret, loc[r].user.Secret)
          /\ chat_users' = (chat_users \ {loc[r].user})
                                \cup {[loc[r].user EXCEPT !.Secret = <<>>]}
          /\ Respond(r, 401, <<"invalid user secret">>, NoData, <<"invalid user secret">>)
       \/ /\ CompareHash(req[r].userSecret, loc[r].user.Secret)
          /\ UNCHANGED chat_users
          /\ Goto(r, "a_history", loc[r])

\* AnswerCompareHash dropping the error of util.CompareHash
AnswerCompareHash_ignored(r) ==
    /\ At(r, "a_compare")
    /\ UNCHANGED <<el, otherVars, req>>
    /\ NoTxYet
    /\ Goto(r, "a_history", loc[r])

AnswerCompareHash(r) ==
    /\ At(r, "a_compare")
    /\ UNCHANGED <<el, otherVars, req>>
    /\ NoTxYet
    /\ \/ /\ ~CompareHash(req[r].userSecret, loc[r].user.Secret)
          /\ Respond(r, 401, <<"invalid user secret">>, NoData, <<"invalid user secret">>)
       \/ /\ CompareHash(req[r].userSecret, loc[r].user.Secret)
          /\ Goto(r, "a_history", loc[r])

AnswerGetChats(r) ==
    /\ At(r, "a_history")
    /\ UNCHANGED <<el, otherVars, req>>
    /\ NoTxYet
    /\ \/ Respond(r, 500, <<"failed to get chat">>, NoData, <<"failed to get chat">>)
       \/ Goto(r, "a_file", [loc[r] EXCEPT !.entries = GetChatsByChatUserID(loc[r].user.ID)])

\* read the uploaded file, resolve the subtitle language name
AnswerReadFile(r) ==
    /\ At(r, "a_file")
    /\ UNCHANGED <<el, otherVars, req>>
    /\ NoTxYet
    /\ \/ Respond(r, 500, <<"failed to read file">>, NoData, <<"failed to read file">>)
       \/ Respond(r, 400, <<"required file is missing">>, NoData,
                  <<"required file is missing">>)
       \/ Respond(r, 500, <<"failed to read audio file">>, NoData,
                  <<"failed to read audio file">>)
       \/ Goto(r, "a_transcribe",
               [loc[r] EXCEPT !.subtitleLanguage =
                    IF loc[r].user.SubtitleLanguage # ""
                    THEN GetLanguageName(GetCode(loc[r].user.SubtitleLanguage)) ELSE ""])

\* util.TranscribeSpeech: the provider fails, or returns its text
AnswerTranscribe(r) ==
    /\ At(r, "a_transcribe")
    /\ UNCHANGED <<el, otherVars, req>>
    /\ NoTxYet
    /\ \/ Respond(r, 500, <<"failed to transcribe speech">>, NoData,
                  <<"failed to transcribe speech">>)
       \/ \E transcript \in Transcripts :
            Goto(r, "a_generate", [loc[r] EXCEPT !.transcript = transcript])

\* AnswerGenerate keeping the transcript field of the model's reply
AnswerGenerate_modelTranscript(r) ==
    /\ At(r, "a_generate")
    /\ UNCHANGED <<el, otherVars, req>>
    /\ NoTxYet
    /\ \E chat \in ChatReplies :
        LET history == ConvertToChatMessage(loc[r].entries)
            g == GenerateAnswerChat(history, loc[r].transcript, loc[r].subtitleLanguage, chat)
        IN  \/ /\ g.err # NoErr
               /\ Respond(r, 500, <<"failed to get chat completion: ">> \o g.err, NoData,
                          <<"failed to get chat completion: ">> \o g.err)
            \/ /\ g.err = NoErr
               /\ Goto(r, "a_speech",
                       [loc[r] EXCEPT !.rawJSON = chat.raw,
                          !.messages = AnswerMessages(history, loc[r].transcript,
                                                      loc[r].subtitleLanguage),
                          !.result =
                            g.result])

\* convert the history, ask the text model, keep the recognizer's transcript
AnswerGenerate(r) ==
    /\ At(r, "a_generate")
    /\ UNCHANGED <<el, otherVars, req>>
    /\ NoTxYet
    /\ \E chat \in ChatReplies :
        LET history == ConvertToChatMessage(loc[r].entries)
            g == GenerateAnswerChat(history, loc[r].transcript, loc[r].subtitleLanguage, chat)
        IN  \/ /\ g.err # NoErr
               /\ Respond(r, 500, <<"failed to get chat completion: ">> \o g.err, NoData,
                          <<"failed to get chat completion: ">> \o g.err)
            \/ /\ g.err = NoErr
               /\ Goto(r, "a_speech",
                       [loc[r] EXCEPT !.rawJSON = chat.raw,
                          !.messages = AnswerMessages(history, loc[r].transcript,
                                                      loc[r].subtitleLanguage),
                          !.result =
                            [g.result EXCEPT !.Transcript = loc[r].transcript]])

\* AnswerSpeech logging the synthesis error without returning
AnswerSpeech_continues(r) ==
    /\ At(r, "a_speech")
    /\ UNCHANGED <<el, otherVars, req, resp>>
    /\ NoTxYet
    /\ \E ttsOk \in BOOLEAN :
        LET g == GenerateSpeech(el, loc[r].result.Response, loc[r].user.Voice, ttsOk)
        IN  /\ pc' = [pc EXCEPT ![r] = "a_begin"]
            /\ loc' = [loc EXCEPT ![r].audio = g.audio]
            /\ logged' = [logged EXCEPT ![r] =
                    IF g.err # NoErr THEN <<"failed to generate speech: ">> \o g.err
                    ELSE @]

AnswerSpeech(r) ==
    /\ At(r, "a_speech")
    /\ UNCHANGED <<el, otherVars, req>>
    /\ NoTxYet
    /\ \E ttsOk \in BOOLEAN :
        LET g == GenerateSpeech(el, loc[r].result.Response, loc[r].user.Voice, ttsOk)
        IN  \/ /\ g.err # NoErr
               /\ Respond(r, 500, <<"failed to generate speech">>, NoData,
                          <<"failed to generate speech: ">> \o g.err)
            \/ /\ g.err = NoErr
               /\ Goto(r, "a_begin", [loc[r] EXCEPT !.audio = g.audio])

AnswerBeginTx(r) ==
    /\ At(r, "a_begin")
    /\ UNCHANGED <<el, otherVars, req>>
    /\ \/ /\ NoTxYet
          /\ Respond(r, 500, <<"failed to create new chat">>, NoData,
                     <<"failed to begin transaction">>)
       \/ /\ Goto(r, "a_chats", loc[r])
          /\ tx' = [tx EXCEPT ![r] = BeginTx]
          /\ UNCHANGED <<chat_users, chats>>

\* AnswerEntries with the reply before the user's turn
AnswerEntries_replyFirst(r) ==
    << Entry(req[r].userID, ROLE_ASSISTANT, loc[r].result.Response, loc[r].audio),
       Entry(req[r].userID, ROLE_USER, loc[r].result.Transcript, <<>>) >>

AnswerEntries(r) ==
    << Entry(req[r].userID, ROLE_USER, loc[r].result.Transcript, <<>>),
       Entry(req[r].userID, ROLE_ASSISTANT, loc[r].result.Response, loc[r].audio) >>

\* AnswerCreateChats inserting through the connection instead of the transaction
AnswerCreateChats_autocommit(r) ==
    /\ At(r, "a_chats")
    /\ UNCHANGED <<el, otherVars, req, chat_users, tx>>
    /\ \/ \E n \in 0..1 :
            /\ chats' = chats \o SubSeq(AnswerEntries(r), 1, n)
            /\ Respond(r, 500, <<"failed to create chat">>, NoData,
                       <<"failed to create chat">>)
       \/ /\ Goto(r, "a_commit", loc[r])
          /\ chats' = chats \o AnswerEntries(r)

\* CreateChats fails after n of the entries, or inserts both
AnswerCreateChats(r) ==
    /\ At(r, "a_chats")
    /\ UNCHANGED <<el, otherVars, req>>
    /\ \/ \E n \in 0..1 :
            /\ Failed(r, CreateChats(tx[r], AnswerEntries(r), n))
            /\ Respond(r, 500, <<"failed to create chat">>, NoData,
                       <<"failed to create chat">>)
       \/ /\ Goto(r, "a_commit", loc[r])
          /\ tx' = [tx EXCEPT ![r] = CreateChats(tx[r], AnswerEntries(r), 2)]
          /\ UNCHANGED <<chat_users, chats>>

\* AnswerResponse reporting every turn as the last one
AnswerResponse_alwaysLast(r) ==
    [kind |-> "answer", Language |-> GetCode(loc[r].user.Language),
     IsLast |-> TRUE,
     Prompt |-> [Text |-> loc[r].result.Transcript, Audio |-> <<>>,
                 Subtitle |-> loc[r].result.TranscriptSubtitle],
     Answer |-> [Text |-> loc[r].result.Response, Audio |-> loc[r].audio,
                 Subtitle |-> loc[r].result.ResponseSubtitle]]

AnswerResponse(r) ==
    [kind |-> "answer", Language |-> GetCode(loc[r].user.Language),
     IsLast |-> loc[r].result.IsLast,
     Prompt |-> [Text |-> loc[r].result.Transcript, Audio |-> <<>>,
                 Subtitle |-> loc[r].result.TranscriptSubtitle],
     Answer |-> [Text |-> loc[r].result.Response, Audio |-> loc[r].audio,
                 Subtitle |-> loc[r].result.ResponseSubtitle]]

\* AnswerCommit loading the history again when it commits
AnswerCommit_reloads(r) ==
    /\ At(r, "a_commit")
    /\ UNCHANGED <<el, otherVars, req>>
    /\ \/ /\ Failed(r, tx[r])
          /\ Respond(r, 500, <<"failed to create new chat">>, NoData,
                     <<"failed to commit transaction">>)
       \/ /\ Commit(r)
          /\ pc' = [pc EXCEPT ![r] = "done"]
          /\ resp' = [resp EXCEPT ![r] = [status |-> 200, message |-> <<"success">>,
                                          data |-> AnswerResponse(r)]]
          /\ logged' = [logged EXCEPT ![r] = <<>>]
          /\ loc' = [loc EXCEPT ![r].entries = GetChatsByChatUserID(loc[r].user.ID)]

\* tx.Commit, then the response
AnswerCommit(r) ==
    /\ At(r, "a_commit")
    /\ UNCHANGED <<el, otherVars, req>>
    /\ \/ /\ Failed(r, tx[r])
          /\ Respond(r, 500, <<"failed to create new chat">>, NoData,
                     <<"failed to commit transaction">>)
       \/ /\ Commit(r)
          /\ Respond(r, 200, <<"success">>, AnswerResponse(r), <<>>)

\* ---- EndChat

EndChat(r) ==
    /\ At(r, "idle")
    /\ UNCHANGED <<el, otherVars>>
    /\ NoTxYet
    /\ \E userID \in 0..MaxSessions, userSecret \in PlainSecrets \cup {<<>>} :
        /\ RoomFor("end")
        /\ req' = [req EXCEPT ![r] = [NoReq EXCEPT !.kind = "end", !.userID = userID,
                                                   !.userSecret = userSecret]]
        /\ \/ /\ (userID = 0 \/ userSecret = <<>>)
              /\ Respond(r, 401, <<"missing required authentication">>, NoData,
                         <<"user ID or secret is missing">>)
           \/ /\ ~(userID = 0 \/ userSecret = <<>>)
              /\ Goto(r, "e_getuser", loc[r])

EndGetUser(r) ==
    /\ At(r, "e_getuser")
    /\ UNCHANGED <<el, otherVars, req>>
    /\ NoTxYet
    /\ \/ /\ GetChatUser(req[r].userID) = {}
          /\ Respond(r, 404, <<"failed to get chat user">>, NoData,
                     <<"failed to get chat user: ", "sql: no rows in result set">>)
       \/ Respond(r, 404, <<"failed to get chat user">>, NoData,
                  <<"failed to get chat user: ", "database error">>)
       \/ \E user \in GetChatUser(req[r].userID) :
            Goto(r, "e_compare", [loc[r] EXCEPT !.user = user])

EndCompareHash(r) ==
    /\ At(r, "e_compare")
    /\ UNCHANGED <<el, otherVars, req>>
    /\ NoTxYet
    /\ \/ /\ ~CompareHash(req[r].userSecret, loc[r].user.Secret)
          /\ Respond(r, 401, <<"invalid user secret">>, NoData, <<"invalid user secret">>)
       \/ /\ CompareHash(req[r].userSecret, loc[r].user.Secret)
          /\ Goto(r, "e_history", loc[r])

\* load the history, resolve the subtitle language name
EndGetChats(r) ==
    /\ At(r, "e_history")
    /\ UNCHANGED <<el, otherVars, req>>
    /\ NoTxYet
    /\ \/ Respond(r, 500, <<"failed to get chat">>, NoData, <<"failed to get chat">>)
       \/ Goto(r, "e_generate",
               [loc[r] EXCEPT !.entries = GetChatsByChatUserID(loc[r].user.ID),
                              !.subtitleLanguage =
                                  IF loc[r].user.SubtitleLanguage # ""
                                  THEN GetLanguageName(GetCode(loc[r].user.SubtitleLanguage))
                                  ELSE ""])

EndGenerate(r) ==
    /\ At(r, "e_generate")
    /\ UNCHANGED <<el, otherVars, req>>
    /\ NoTxYet
    /\ \E chat \in ChatReplies :
        LET history == ConvertToChatMessage(loc[r].entries)
            g == GenerateEndChat(history, loc[r].subtitleLanguage, chat)
        IN  \/ /\ g.err # NoErr
               /\ Respond(r, 500, <<"failed to get chat completion">>, NoData,
                          <<"failed to get chat completion: ">> \o g.err)
            \/ /\ g.err = NoErr
               /\ Goto(r, "e_speech",
                       [loc[r] EXCEPT !.result = g.result, !.rawJSON = chat.raw,
                                      !.messages = EndMessages(history,
                                                               loc[r].subtitleLanguage)])

\* EndSpeech synthesizing with the client's default voice
EndSpeech_defaultVoice(r) ==
    /\ At(r, "e_speech")
    /\ UNCHANGED <<el, otherVars, req>>
    /\ NoTxYet
    /\ \E ttsOk \in BOOLEAN :
        LET g == GenerateSpeech(el, loc[r].result.Response, "", ttsOk)
        IN  \/ /\ g.err # NoErr
               /\ Respond(r, 500, <<"failed to generate speech">>, NoData,
                          <<"failed to generate speech: ">> \o g.err)
            \/ /\ g.err = NoErr
               /\ Goto(r, "e_begin", [loc[r] EXCEPT !.audio = g.audio])

\* synthesize the farewell with the session's voice
EndSpeech(r) ==
    /\ At(r, "e_speech")
    /\ UNCHANGED <<el, otherVars, req>>
    /\ NoTxYet
    /\ \E ttsOk \in BOOLEAN :
        LET g == GenerateSpeech(el, loc[r].result.Response, loc[r].user.Voice, ttsOk)
        IN  \/ /\ g.err # NoErr
               /\ Respond(r, 500, <<"failed to generate speech">>, NoData,
                          <<"failed to generate speech: ">> \o g.err)
            \/ /\ g.err = NoErr
               /\ Goto(r, "e_begin", [loc[r] EXCEPT !.audio = g.audio])

EndBeginTx(r) ==
    /\ At(r, "e_begin")
    /\ UNCHANGED <<el, otherVars, req>>
    /\ \/ /\ NoTxYet
          /\ Respond(r, 500, <<"failed to create new chat">>, NoData,
                     <<"failed to begin transaction">>)
       \/ /\ Goto(r, "e_chat", loc[r])
          /\ tx' = [tx EXCEPT ![r] = BeginTx]
          /\ UNCHANGED <<chat_users, chats>>

\* EndEntries writing a user turn as well, as AnswerChat does
EndEntries_asAnswer(r) ==
    << Entry(req[r].userID, ROLE_USER, loc[r].result.Transcript, <<>>),
       Entry(req[r].userID, ROLE_ASSISTANT, loc[r].result.Response, loc[r].audio) >>

EndEntries(r) ==
    << Entry(req[r].userID, ROLE_ASSISTANT, loc[r].result.Response, loc[r].audio) >>

\* CreateChat fails, or inserts the entry
EndCreateChat(r) ==
    /\ At(r, "e_chat")
    /\ UNCHANGED <<el, otherVars, req>>
    /\ \/ /\ Failed(r, tx[r])
          /\ Respond(r, 500, <<"failed to create chat">>, NoData,
                     <<"failed to create chat">>)
       \/ /\ Goto(r, "e_commit", loc[r])
          /\ tx' = [tx EXCEPT ![r] =
                    CreateChats(tx[r], EndEntries(r), Len(EndEntries(r)))]
          /\ UNCHANGED <<chat_users, chats>>

\* EndResponse reporting the sanitized text that was spoken
EndResponse_sanitized(r) ==
    [kind |-> "end", Language |-> GetCode(loc[r].user.Language), IsLast |-> TRUE,
     Prompt |-> [Text |-> <<>>, Audio |-> <<>>, Subtitle |-> <<>>],
     Answer |-> [Text |-> SanitizeString(loc[r].result.Response), Audio |-> loc[r].audio,
                 Subtitle |-> loc[r].result.ResponseSubtitle]]

EndResponse(r) ==
    [kind |-> "end", Language |-> GetCode(loc[r].user.Language), IsLast |-> TRUE,
     Prompt |-> [Text |-> <<>>, Audio |-> <<>>, Subtitle |-> <<>>],
     Answer |-> [Text |-> loc[r].result.Response, Audio |-> loc[r].audio,
                 Subtitle |-> loc[r].result.ResponseSubtitle]]

EndCommit(r) ==
    /\ At(r, "e_commit")
    /\ UNCHANGED <<el, otherVars, req>>
    /\ \/ /\ Failed(r, tx[r])
          /\ Respond(r, 500, <<"failed to create new chat">>, NoData,
                     <<"failed to commit transaction">>)
       \/ /\ Commit(r)
          /\ Respond(r, 200, <<"success">>, EndResponse(r), <<>>)

\* ---- the handler returns: the deferred tx.Rollback() runs if a transaction
\* was begun, and the invocation can serve the next request
Return(r) ==
    /\ At(r, "done")
    /\ chat_users' = Rollback(tx[r]).chat_users
    /\ chats' = Rollback(tx[r]).chats
    /\ tx' = [tx EXCEPT ![r] = NoTx]
    /\ pc' = [pc EXCEPT ![r] = "idle"]
    /\ req' = [req EXCEPT ![r] = NoReq]
    /\ loc' = [loc EXCEPT ![r] = NoLoc]
    /\ resp' = [resp EXCEPT ![r] = NoResp]
    /\ logged' = [logged EXCEPT ![r] = <<>>]
    /\ UNCHANGED <<el, otherVars>>

Next ==
    \E r \in Req :
        \/ StartChat(r) \/ StartGenerate(r) \/ StartSpeech(r) \/ StartHash(r)
        \/ StartBeginTx(r) \/ StartCreateUser(r) \/ StartCreateChats(r) \/ StartCommit(r)
        \/ AnswerChat(r) \/ AnswerGetUser(r) \/ AnswerCompareHash(r) \/ AnswerGetChats(r)
        \/ AnswerReadFile(r) \/ AnswerTranscribe(r) \/ AnswerGenerate(r) \/ AnswerSpeech(r)
        \/ AnswerBeginTx(r) \/ AnswerCreateChats(r) \/ AnswerCommit(r)
        \/ EndChat(r) \/ EndGetUser(r) \/ EndCompareHash(r) \/ EndGetChats(r)
        \/ EndGenerate(r) \/ EndSpeech(r) \/ EndBeginTx(r) \/ EndCreateChat(r)
        \/ EndCommit(r)
        \/ Return(r)

Spec == Init /\ [][Next]_vars

----------------------------------------------------------------------------
\* A model reply through util.extractJSON and json.Unmarshal, as the
\* generators that extract run them one after the other.

ExtractInit ==
    /\ chat_users = {}
    /\ chats = <<>>
    /\ el = FALSE
    /\ pc = [r \in Req |-> "idle"]
    /\ req = [r \in Req |-> NoReq]
    /\ loc = [r \in Req |-> NoLoc]
    /\ tx = [r \in Req |-> NoTx]
    /\ resp = [r \in Req |-> NoResp]
    /\ logged = [r \in Req |-> <<>>]
    /\ health = NoHealth /\ screen = Mounted /\ startLanguage = "none"
    /\ \E prefix \in Affixes, suffix \in Affixes, form \in Forms \cup {"none"} :
        \E payload \in (IF form = "none" THEN {<<>>} ELSE Payloads) :
            extraction = [NoExtraction EXCEPT
                            !.at = "raw", !.prefix = prefix, !.form = form,
                            !.payload = payload, !.suffix = suffix,
                            !.rawResponse = prefix \o Core(form, payload) \o suffix]

\* jsonStr := extractJSON(rawResponse)
ExtractJSON ==
    /\ extraction.at = "raw"
    /\ extraction' = [extraction EXCEPT !.at = "extracted",
                                        !.jsonStr = extractJSON(extraction.rawResponse)]
    /\ UNCHANGED <<handlerVars, health, startLanguage, screen>>

\* json.Unmarshal([]byte(jsonStr), &result)
UnmarshalExtracted ==
    /\ extraction.at = "extracted"
    /\ extraction' = [extraction EXCEPT !.at = "parsed",
                                        !.parsed = ParseObject(extraction.jsonStr)]
    /\ UNCHANGED <<handlerVars, health, startLanguage, screen>>

ExtractNext == ExtractJSON \/ UnmarshalExtracted

ExtractSpec == ExtractInit /\ [][ExtractNext]_vars

----------------------------------------------------------------------------
\* Answer turns on one session: the handlers after a first Start was
\* committed and has returned, serving AnswerChat requests only.

\* the state a Start of the first request body leaves behind, with a backend
StartedOnce ==
    LET body == CHOOSE b \in StartRequests : b.Language # ""
        voice == CHOOSE v \in Voices : TRUE
        greeting == <<"hello">>
    IN  /\ chat_users = {CreateChatUser(1, CreateHash(Secret(1)), GetLanguage(body.Language),
                                        GetLanguage(body.SubtitleLanguage), voice)}
        /\ chats = << Entry(1, ROLE_SYSTEM,
                            GetSystemPrompt(body.Role, body.Topic,
                                            GetLanguageName(body.Language)), <<>>),
                      Entry(1, ROLE_ASSISTANT, greeting,
                            Base64(TextToSpeech(SanitizeString(greeting), voice))) >>
        /\ el = TRUE
        /\ pc = [r \in Req |-> "idle"]
        /\ req = [r \in Req |-> NoReq]
        /\ loc = [r \in Req |-> NoLoc]
        /\ tx = [r \in Req |-> NoTx]
        /\ resp = [r \in Req |-> NoResp]
        /\ logged = [r \in Req |-> <<>>]

OverlapInit == StartedOnce /\ extraction = NoExtraction /\ health = NoHealth /\ screen = Mounted /\ startLanguage = "none"

\* AnswerChat, accepted while the rows of MaxAnswers turns still fit
OverlapAnswerChat(r) ==
    /\ At(r, "idle")
    /\ UNCHANGED <<el, otherVars>>
    /\ NoTxYet
    /\ \E userID \in 0..MaxSessions, userSecret \in PlainSecrets \cup {<<>>} :
        /\ Len(chats) + Reserved(Running) + BatchSize("answer")
              <= BatchSize("start") + MaxAnswers * BatchSize("answer")
        /\ req' = [req EXCEPT ![r] = [NoReq EXCEPT !.kind = "answer", !.userID = userID,
                                                   !.userSecret = userSecret]]
        /\ \/ /\ (userID = 0 \/ userSecret = <<>>)
              /\ Respond(r, 401, <<"missing required authentication">>, NoData,
                         <<"user ID or secret is missing">>)
           \/ /\ ~(userID = 0 \/ userSecret = <<>>)
              /\ Goto(r, "a_getuser", loc[r])

OverlapNext ==
    \E r \in Req :
        \/ OverlapAnswerChat(r) \/ AnswerGetUser(r) \/ AnswerCompareHash(r)
        \/ AnswerGetChats(r) \/ AnswerReadFile(r) \/ AnswerTranscribe(r)
        \/ AnswerGenerate(r) \/ AnswerSpeech(r) \/ AnswerBeginTx(r)
        \/ AnswerCreateChats(r) \/ AnswerCommit(r) \/ Return(r)

OverlapSpec == OverlapInit /\ [][OverlapNext]_vars

----------------------------------------------------------------------------
\* One session started in any language: the handlers after a Start whose
\* request named startLanguage was committed and has returned, serving Answer
\* and End requests.

\* the state a Start leaves behind whose request named a supported language
\* code, none, or one the maps do not list
LanguageInit ==
    \E code \in DOMAIN CodeToLanguage \cup {"", "xx-XX"} :
        LET chatLanguage == IF code # "" THEN GetLanguage(code)
                            ELSE GetDefaultTranscriptLanguage
            voice == CHOOSE v \in Voices : TRUE
            greeting == <<"hello">>
        IN  /\ chat_users = {CreateChatUser(1, CreateHash(Secret(1)), chatLanguage,
                                            GetLanguage(""), voice)}
            /\ chats = << Entry(1, ROLE_SYSTEM,
                                GetSystemPrompt("guide", "Tokyo", GetLanguageName(code)),
                                <<>>),
                          Entry(1, ROLE_ASSISTANT, greeting,
                                Base64(TextToSpeech(SanitizeString(greeting), voice))) >>
            /\ el = TRUE
            /\ pc = [r \in Req |-> "idle"]
            /\ req = [r \in Req |-> NoReq]
            /\ loc = [r \in Req |-> NoLoc]
            /\ tx = [r \in Req |-> NoTx]
            /\ resp = [r \in Req |-> NoResp]
            /\ logged = [r \in Req |-> <<>>]
            /\ startLanguage = code
            /\ extraction = NoExtraction
            /\ health = NoHealth /\ screen = Mounted

\* the requests of the session served one after the other
LanguageNext ==
    \E r \in {CHOOSE q \in Req : TRUE} :
        \/ OverlapAnswerChat(r) \/ AnswerGetUser(r) \/ AnswerCompareHash(r)
        \/ AnswerGetChats(r) \/ AnswerReadFile(r) \/ AnswerTranscribe(r)
        \/ AnswerGenerate(r) \/ AnswerSpeech(r) \/ AnswerBeginTx(r)
        \/ AnswerCreateChats(r) \/ AnswerCommit(r)
        \/ EndChat(r) \/ EndGetUser(r) \/ EndCompareHash(r) \/ EndGetChats(r)
        \/ EndGenerate(r) \/ EndSpeech(r) \/ EndBeginTx(r) \/ EndCreateChat(r)
        \/ EndCommit(r)
        \/ Return(r)

LanguageSpec == LanguageInit /\ [][LanguageNext]_vars

----------------------------------------------------------------------------
\* The chat screen of one session: the clicks of its user and the completions
\* of what the clicks began, in any order.

ScreenInit ==
    /\ chat_users = {}
    /\ chats = <<>>
    /\ el = FALSE
    /\ pc = [r \in Req |-> "idle"]
    /\ req = [r \in Req |-> NoReq]
    /\ loc = [r \in Req |-> NoLoc]
    /\ tx = [r \in Req |-> NoTx]
    /\ resp = [r \in Req |-> NoResp]
    /\ logged = [r \in Req |-> <<>>]
    /\ extraction = NoExtraction
    /\ health = NoHealth
    /\ startLanguage = "none"
    /\ screen = Mounted

\* a click on the record button while it reads Record Answer: startRecording
\* up to its await; at most MaxPending recordings and requests are under way
startRecording ==
    /\ ~(screen.isProcessing \/ screen.hasEnded)
    /\ ~screen.isRecording
    /\ screen.acquiring + (IF screen.isRecording THEN 1 ELSE 0) + screen.stopped
            + screen.answers + screen.ends < MaxPending
    /\ screen' = [screen EXCEPT !.acquiring = @ + 1]
    /\ UNCHANGED <<handlerVars, extraction, health, startLanguage>>

\* getUserMedia settles: the new recorder starts, or the error is shown
gotUserMedia ==
    /\ screen.acquiring > 0
    /\ \/ screen' = [screen EXCEPT !.acquiring = @ - 1, !.recorder = "recording",
                                    !.isRecording = TRUE]
       \/ screen' = [screen EXCEPT !.acquiring = @ - 1]
    /\ UNCHANGED <<handlerVars, extraction, health, startLanguage>>

\* a click on the record button while it reads Stop Recording
stopRecording ==
    /\ ~(screen.isProcessing \/ screen.hasEnded)
    /\ screen.isRecording
    /\ IF screen.recorder # "none" /\ screen.isRecording
         THEN screen' = [screen EXCEPT !.recorder = "inactive", !.stopped = @ + 1,
                                       !.isRecording = FALSE]
         ELSE UNCHANGED screen
    /\ UNCHANGED <<handlerVars, extraction, health, startLanguage>>

\* the recorder's onstop handler after convertToWav: sendAudioToServer up to
\* its fetch, or convertToWav rejects and nothing is sent
sendAudioToServer ==
    /\ screen.stopped > 0
    /\ \/ screen' = [screen EXCEPT !.stopped = @ - 1, !.isProcessing = TRUE,
                                    !.answers = @ + 1]
       \/ screen' = [screen EXCEPT !.stopped = @ - 1]
    /\ UNCHANGED <<handlerVars, extraction, health, startLanguage>>

\* the fetch of /chat/answer settles: sendAudioToServer from its await on
answerFetched ==
    /\ screen.answers > 0
    /\ \/ \E isLast \in BOOLEAN :
            screen' = [screen EXCEPT !.answers = @ - 1, !.hasStarted = TRUE,
                                     !.hasEnded = @ \/ isLast, !.isProcessing = FALSE]
       \/ screen' = [screen EXCEPT !.answers = @ - 1, !.isProcessing = FALSE]
    /\ UNCHANGED <<handlerVars, extraction, health, startLanguage>>

\* a click on the End button: endConversation up to its fetch
endConversation ==
    /\ screen.hasStarted /\ ~screen.hasEnded
    /\ ~(screen.isProcessing \/ screen.isRecording \/ screen.hasEnded)
    /\ screen.acquiring + screen.stopped + screen.answers + screen.ends < MaxPending
    /\ screen' = [screen EXCEPT !.isProcessing = TRUE, !.ends = @ + 1]
    /\ UNCHANGED <<handlerVars, extraction, health, startLanguage>>

\* the fetch of /chat/end settles: endConversation from its await on
endFetched ==
    /\ screen.ends > 0
    /\ \/ screen' = [screen EXCEPT !.ends = @ - 1, !.hasEnded = TRUE,
                                    !.isProcessing = FALSE]
       \/ screen' = [screen EXCEPT !.ends = @ - 1, !.isProcessing = FALSE]
    /\ UNCHANGED <<handlerVars, extraction, health, startLanguage>>

ScreenNext ==
    \/ startRecording \/ gotUserMedia \/ stopRecording \/ sendAudioToServer
    \/ answerFetched \/ endConversation \/ endFetched

ScreenSpec == ScreenInit /\ [][ScreenNext]_vars

----------------------------------------------------------------------------
\* The Status handler on a status page that lists some components.

StatusInit ==
    /\ chat_users = {}
    /\ chats = <<>>
    /\ el = FALSE
    /\ pc = [r \in Req |-> "idle"]
    /\ req = [r \in Req |-> NoReq]
    /\ loc = [r \in Req |-> NoLoc]
    /\ tx = [r \in Req |-> NoTx]
    /\ resp = [r \in Req |-> NoResp]
    /\ logged = [r \in Req |-> <<>>]
    /\ extraction = NoExtraction
    /\ \E components \in UNION {[1..n -> Components] : n \in 0..MaxComponents} :
        health = [NoHealth EXCEPT !.at = "key", !.components = components]
    /\ startLanguage = "none"
    /\ screen = Mounted

\* h.ai.IsKeyValid
StatusIsKeyValid ==
    /\ health.at = "key"
    /\ \/ health' = [health EXCEPT !.at = "done", !.response.code = 500]
       \/ \E valid \in BOOLEAN :
            health' = [health EXCEPT !.at = "status", !.keyValid = valid]
    /\ UNCHANGED <<handlerVars, extraction, startLanguage, screen>>

\* h.ai.Status, apiState and the response
StatusRespond ==
    /\ health.at = "status"
    /\ \E fetch \in {"error", "non200", "ok"} :
        LET got == Status(fetch, health.components)
        IN  health' = [health EXCEPT
                !.at = "done", !.fetch = fetch,
                !.response =
                    IF got.err # NoErr THEN [NoHealth.response EXCEPT !.code = 500]
                    ELSE [code |-> 200, Server |-> TRUE, Key |-> health.keyValid,
                          API |-> ApiState(got.status), ApiStatus |-> got.status]]
    /\ UNCHANGED <<handlerVars, extraction, startLanguage, screen>>

StatusNext == StatusIsKeyValid \/ StatusRespond

StatusSpec == StatusInit /\ [][StatusNext]_vars

----------------------------------------------------------------------------
\* Properties of the turn orchestration.

IsPrefix(s, t) == Len(s) <= Len(t) /\ SubSeq(t, 1, Len(s)) = s

\* the statements from BeginTx to tx.Commit
PersistPcs ==
    {"s_begin", "s_user", "s_chats", "s_commit", "a_begin", "a_chats", "a_commit",
     "e_begin", "e_chat", "e_commit"}

\* the history load and the provider calls that come before BeginTx
PrePersistPcs ==
    {"s_generate", "s_speech", "a_history", "a_transcribe", "a_generate", "a_speech",
     "e_history", "e_generate", "e_speech"}

\* the statements of AnswerChat and EndChat after the secret was compared
AuthedPcs ==
    {"a_history", "a_file", "a_transcribe", "a_generate", "a_speech", "a_begin",
     "a_chats", "a_commit", "e_history", "e_generate", "e_speech", "e_begin",
     "e_chat", "e_commit"}

\* in this step invocation r moves
Moves(r) == pc'[r] # pc[r]

\* in this step tx.Commit() of invocation r returns nil
Commits(r) == pc[r] \in {"s_commit", "a_commit", "e_commit"} /\ resp'[r].status = 200

\* the session's history, as a later request would load it
History(id) == RowsOf(chats, id)

\* C1: when BeginTx, an insert of the batch or the commit of a Start, Answer or
\* End fails, the tables are what they were (no row of the failed batch is
\* visible, neither at the failure nor after the handler returned) and the
\* caller gets a 500 without data.
C1_FailedPersistenceLeavesNoTurn ==
    [][\A r \in Req :
        (pc[r] \in PersistPcs \cup {"done"} /\ Moves(r) /\ ~Commits(r)) =>
            /\ chats' = chats
            /\ chat_users' = chat_users
            /\ pc'[r] = "done" =>
                 /\ resp'[r].status = 500
                 /\ resp'[r].data = NoData
                 /\ logged'[r] # <<>>]_vars

\* an Answer whose second insert failed, on a session that has its two turns
C1_Witness ==
    \E r \in Req :
        /\ pc[r] = "done"
        /\ req[r].kind = "answer"
        /\ logged[r] = <<"failed to create chat">>
        /\ Len(tx[r].chats) = 1
        /\ Len(History(req[r].userID)) = 2

\* C2: a failure of the history load, of transcription, of text generation or
\* parsing, or of synthesis ends the handler with a 500 without data; no
\* transaction was begun, and the tables are unchanged by the failure and by
\* the handler's return.
C2_EarlyFailurePersistsNothing ==
    [][\A r \in Req :
        /\ (pc[r] \in PrePersistPcs /\ Moves(r) /\ (logged'[r] # <<>> \/ pc'[r] = "done")) =>
            /\ pc'[r] = "done"
            /\ resp'[r].status = 500
            /\ resp'[r].data = NoData
            /\ tx[r] = NoTx /\ tx'[r] = NoTx
            /\ chats' = chats
            /\ chat_users' = chat_users
        /\ (pc[r] = "done" /\ Moves(r) /\ tx[r] = NoTx) =>
            /\ chats' = chats
            /\ chat_users' = chat_users]_vars

\* an Answer whose synthesis call failed, on a session that has its two turns
C2_Witness ==
    \E r \in Req :
        /\ pc[r] = "done"
        /\ req[r].kind = "answer"
        /\ logged[r] = <<"failed to generate speech: ", "unexpected status code">>
        /\ resp[r].status = 500
        /\ Len(History(req[r].userID)) = 2

\* the secret of the request matches the hash stored for the session it names
SecretMatches(r) ==
    \E u \in chat_users : u.ID = req[r].userID /\ CompareHash(req[r].userSecret, u.Secret)

\* C3: an Answer or End whose secret does not match the session's stored hash
\* is answered 401 "invalid user secret" and changes no table; an invocation
\* that is past the comparison carries a matching secret, so a mismatching one
\* never reaches the inserts.
C3_WrongSecretAppendsNothing ==
    [][\A r \in Req :
        /\ (pc[r] \in {"a_compare", "e_compare"} /\ Moves(r) /\ ~SecretMatches(r)) =>
            /\ pc'[r] = "done"
            /\ resp'[r] = [status |-> 401, message |-> <<"invalid user secret">>,
                           data |-> NoData]
            /\ tx'[r] = NoTx
            /\ chats' = chats
            /\ chat_users' = chat_users
        /\ pc'[r] \in AuthedPcs => SecretMatches(r)']_vars

\* an End with the wrong secret of an existing session was rejected
C3_Witness ==
    \E r \in Req :
        /\ pc[r] = "done"
        /\ req[r].kind = "end"
        /\ GetChatUser(req[r].userID) # {}
        /\ ~SecretMatches(r)
        /\ resp[r].status = 401

\* C4: an Answer or End naming a session that does not exist gets the answer
\* that a wrong secret gets: 401 "invalid user secret".
C4_UnknownSessionLooksLikeWrongSecret ==
    \A r \in Req :
        ( /\ pc[r] = "done"
          /\ req[r].kind \in {"answer", "end"}
          /\ req[r].userID # 0
          /\ req[r].userSecret # <<>>
          /\ GetChatUser(req[r].userID) = {}
          /\ logged[r] = <<"failed to get chat user: ", "sql: no rows in result set">> )
        => resp[r] = [status |-> 401, message |-> <<"invalid user secret">>,
                      data |-> NoData]

\* C5: every step leaves each session's history, and the table as a whole, a
\* prefix of what it is after the step: rows are only ever appended.
C5_HistoryAppendOnly ==
    [][/\ IsPrefix(chats, chats')
       /\ \A id \in IDs : IsPrefix(History(id), History(id)')]_vars

\* a session whose history grew past its first turns, with a failed request on it
C5_Witness ==
    \E id \in IDs :
        /\ Len(History(id)) >= 4
        /\ \E r \in Req : pc[r] = "done" /\ resp[r].status = 500 /\ req[r].userID = id

\* C6: in every state a session's row exists exactly when its history starts
\* with a system turn and an assistant turn; a session without a row has no
\* turns at all.
C6_SessionIffInitialTurns ==
    \A id \in IDs :
        /\ GetChatUser(id) # {} <=>
             /\ Len(History(id)) >= 2
             /\ History(id)[1].role = ROLE_SYSTEM
             /\ History(id)[2].role = ROLE_ASSISTANT
        /\ GetChatUser(id) = {} => History(id) = <<>>

\* a Start that failed after it wrote the session's row and the system turn
C6_Witness ==
    \E r \in Req :
        /\ pc[r] = "done"
        /\ req[r].kind = "start"
        /\ resp[r].status = 500
        /\ Len(tx[r].users) = 1
        /\ Len(tx[r].chats) = 1

\* C7: a Start answered 200 returns the id of a session, a plaintext secret
\* that the session's stored hash accepts and a non-empty greeting, and the
\* session's history is the system turn with the persona prompt followed by the
\* assistant turn with the greeting's text and audio.
C7_StartCreatesTwoTurns ==
    \A r \in Req :
        (pc[r] = "done" /\ req[r].kind = "start" /\ resp[r].status = 200) =>
            LET d == resp[r].data
                body == req[r].body
            IN  /\ d.ID \in IDs
                /\ d.Secret \in PlainSecrets
                /\ \E u \in GetChatUser(d.ID) : CompareHash(d.Secret, u.Secret)
                /\ d.Chat.Text # <<>>
                /\ History(d.ID) =
                     << Entry(d.ID, ROLE_SYSTEM,
                              GetSystemPrompt(body.Role, body.Topic,
                                              GetLanguageName(body.Language)), <<>>),
                        Entry(d.ID, ROLE_ASSISTANT, d.Chat.Text, d.Chat.Audio) >>

\* a Start answered 200 with a synthesized greeting
C7_Witness ==
    \E r \in Req :
        /\ pc[r] = "done"
        /\ req[r].kind = "start"
        /\ resp[r].status = 200
        /\ resp[r].data.Chat.Audio # <<>>

\* the model's raw output holds isLast, and it is true
ModelSaysLast(raw) == "isLast" \in DOMAIN raw.obj /\ raw.obj["isLast"]

\* C8: the commit of an Answer appends to the session's history the user turn
\* with the recognised transcript and the assistant turn with the reply, and
\* nothing else; the response's IsLast is true exactly when the model's output
\* holds isLast = true.
C8_AnswerAppendsTwoTurns ==
    [][\A r \in Req :
        (pc[r] = "a_commit" /\ resp'[r].status = 200) =>
            LET d == resp'[r].data
                id == req[r].userID
                turns == << Entry(id, ROLE_USER, loc[r].transcript, <<>>),
                            Entry(id, ROLE_ASSISTANT, d.Answer.Text, d.Answer.Audio) >>
            IN  /\ chats' = chats \o turns
                /\ History(id)' = History(id) \o turns
                /\ chat_users' = chat_users
                /\ d.Answer.Text # <<>>
                /\ d.IsLast = ModelSaysLast(loc[r].rawJSON)]_vars

\* an Answer answered 200 for which the model set isLast
C8_Witness ==
    \E r \in Req :
        /\ pc[r] = "done"
        /\ req[r].kind = "answer"
        /\ resp[r].status = 200
        /\ resp[r].data.IsLast
        /\ Len(History(req[r].userID)) = 4

\* C9: the commit of an End appends to the session's history one assistant
\* turn with the reply, and nothing else; the response's IsLast is true.
C9_EndAppendsOneTurn ==
    [][\A r \in Req :
        (pc[r] = "e_commit" /\ resp'[r].status = 200) =>
            LET d == resp'[r].data
                id == req[r].userID
                turns == << Entry(id, ROLE_ASSISTANT, d.Answer.Text, d.Answer.Audio) >>
            IN  /\ chats' = chats \o turns
                /\ History(id)' = History(id) \o turns
                /\ chat_users' = chat_users
                /\ d.IsLast = TRUE]_vars

\* an End answered 200 for which the model did not set isLast
C9_Witness ==
    \E r \in Req :
        /\ pc[r] = "done"
        /\ req[r].kind = "end"
        /\ resp[r].status = 200
        /\ ~ModelSaysLast(loc[r].rawJSON)
        /\ Len(History(req[r].userID)) = 3

\* an End turn was written for the session: only EndChat writes an assistant
\* turn right after an assistant turn
Ended(id) ==
    \E i \in 2..Len(History(id)) :
        History(id)[i].role = ROLE_ASSISTANT /\ History(id)[i - 1].role = ROLE_ASSISTANT

\* C10: once an End turn was written for a session, no step appends a turn to
\* its history.
C10_EndedIsTerminal ==
    [][\A id \in IDs : Ended(id) => History(id)' = History(id)]_vars

\* C11: no assistant turn with empty text is ever in the table: a model output
\* whose reply is empty or absent fails the turn in StartChat, AnswerChat and
\* EndChat alike.
C11_NoEmptyAssistantTurn ==
    \A i \in DOMAIN chats : chats[i].role = ROLE_ASSISTANT => chats[i].text # <<>>

\* C12: an empty transcript fails the Answer: the handler never reaches the
\* text model with an empty transcript, and no user turn with empty text is in
\* the table.
C12_EmptyTranscriptFailsTurn ==
    /\ \A r \in Req : pc[r] = "a_generate" => loc[r].transcript # <<>>
    /\ \A i \in DOMAIN chats : chats[i].role = ROLE_USER => chats[i].text # <<>>

\* the plaintext whose hash the session's row stores
IssuedIn(users, id) ==
    CHOOSE p \in PlainSecrets : \E u \in users : u.ID = id /\ u.Secret = CreateHash(p)

IssuedSecret(id) == IssuedIn(chat_users, id)

\* C13: a Start answered 200 returns the plaintext whose hash it stored for
\* the new session; an Answer or End naming a session passes the comparison
\* exactly when it presents that plaintext, and is answered 401 otherwise.
C13_IssuedSecretAuthenticates ==
    [][\A r \in Req :
        /\ (pc[r] = "s_commit" /\ resp'[r].status = 200) =>
              resp'[r].data.Secret = IssuedIn(chat_users', resp'[r].data.ID)
        /\ (pc[r] \in {"a_compare", "e_compare"} /\ Moves(r)) =>
              /\ pc'[r] \in {"a_history", "e_history"} <=>
                    req[r].userSecret = IssuedSecret(req[r].userID)
              /\ req[r].userSecret # IssuedSecret(req[r].userID) =>
                    pc'[r] = "done" /\ resp'[r].status = 401]_vars

\* with two sessions created, a request presenting its session's own secret
\* has passed the comparison
C13_Witness ==
    \E r \in Req :
        /\ pc[r] \in {"a_history", "e_history"}
        /\ Cardinality(chat_users) = 2
        /\ req[r].userSecret = IssuedSecret(req[r].userID)

\* the lookup of the session and the comparison of the secret
AuthPcs == {"a_getuser", "a_compare", "e_getuser", "e_compare"}

\* C14: the lookup and the comparison change no table and open no
\* transaction, whatever their outcome, and the comparison succeeds exactly
\* when the presented secret matches the stored hash: a credential that was
\* accepted once is accepted again.
C14_AuthenticationReadOnly ==
    [][\A r \in Req :
        (pc[r] \in AuthPcs /\ Moves(r)) =>
            /\ chat_users' = chat_users
            /\ chats' = chats
            /\ tx' = tx
            /\ pc[r] \in {"a_compare", "e_compare"} =>
                 (pc'[r] \in {"a_history", "e_history"} <=> SecretMatches(r)')]_vars

\* two requests with the same credentials have both passed the comparison
C14_Witness ==
    \E r \in Req : \E q \in Req \ {r} :
        /\ pc[r] \in {"a_history", "e_history"}
        /\ pc[q] \in {"a_history", "e_history"}
        /\ req[r].userID = req[q].userID
        /\ req[r].userSecret = req[q].userSecret

\* C15: every step keeps every session row as it is, and leaves at most one
\* row per session id: a session's hash, languages and voice are those its
\* Start stored.
C15_SessionRecordImmutable ==
    [][/\ \A u \in chat_users : u \in chat_users'
       /\ \A u \in chat_users' : \A v \in chat_users' : u.ID = v.ID => u = v]_vars

\* two sessions exist and one of them has turns after its first two
C15_Witness ==
    /\ Cardinality(chat_users) = 2
    /\ \E id \in IDs : Len(History(id)) >= 3

\* C16: in every state the first turn of a history that is not empty has role
\* system, and no later turn of that history has.
C16_SystemTurnFirstAndOnly ==
    \A id \in IDs :
        History(id) # <<>> =>
            /\ History(id)[1].role = ROLE_SYSTEM
            /\ \A i \in 2..Len(History(id)) : History(id)[i].role # ROLE_SYSTEM

\* a history that a Start, an Answer and an End have written to
C16_Witness ==
    \E id \in IDs :
        /\ Len(History(id)) = 5
        /\ History(id)[3].role = ROLE_USER
        /\ History(id)[5].role = ROLE_ASSISTANT

\* C17: the message of an error response holds no piece of a raw model
\* output: what the caller reads when the output cannot be parsed is the same
\* whatever the unparseable text was.
C17_ErrorHidesRawModelText ==
    \A r \in Req :
        (pc[r] = "done" /\ resp[r].status # 200) =>
            \A i \in DOMAIN resp[r].message :
                \A o \in RawOutputs : \A j \in DOMAIN o.text :
                    resp[r].message[i] # o.text[j]

----------------------------------------------------------------------------
\* Progress of a turn.

\* invocation r waits for the reply of a provider: OpenAI.Chat,
\* OpenAI.Transcribe, or ElevenLab.TextToSpeech when a backend is configured.
\* The calls go through http.DefaultClient with context.Background(): no
\* statement of the clients or of the handlers ends the wait.
AwaitsProvider(r) ==
    \/ pc[r] \in {"s_generate", "a_transcribe", "a_generate", "e_generate"}
    \/ pc[r] \in {"s_speech", "a_speech", "e_speech"} /\ el

\* a step of invocation r that only the server has to take: the handler is
\* running and does not wait for a provider
Progress(r) ==
    /\ Next
    /\ pc[r] # "idle"
    /\ ~AwaitsProvider(r)
    /\ Moves(r)

\* A running handler that is not waiting goes on; whether and when a request
\* arrives or a provider replies is not the server's to decide.  A goroutine
\* that can run is run; here a step of r is held back while the other
\* invocation is between two of its SharedPcs, which it leaves again, so the
\* step is enabled again and again and the fairness is the strong one.
LiveSpec == Spec /\ \A r \in Req : SF_vars(Progress(r))

\* C18: every turn that was started completes with a response.
C18_EveryTurnCompletes ==
    \A r \in Req : (pc[r] # "idle") ~> (pc[r] = "done")

----------------------------------------------------------------------------
\* Subtitles and speech.

\* C19: a Start whose request has an empty subtitleLanguage asks the model for
\* no subtitle and stores an empty subtitle language in the session's row, so
\* that the later turns of the session ask for none either.
C19_EmptySubtitleLanguageDisables ==
    \A r \in Req :
        ( /\ pc[r] = "done"
          /\ req[r].kind = "start"
          /\ resp[r].status = 200
          /\ req[r].body.SubtitleLanguage = "" )
        => /\ loc[r].subtitleLanguage = ""
           /\ \A u \in GetChatUser(resp[r].data.ID) : u.SubtitleLanguage = ""

\* the reply a 200 response carries
ReplyOf(d) == IF d.kind = "start" THEN d.Chat ELSE d.Answer

\* C20: when no synthesis backend is configured, the synthesis step of every
\* handler goes on with empty audio and never fails, and a commit writes the
\* assistant turn with the reply's text and empty audio and answers 200 with
\* that text and empty audio.
C20_NoBackendEmptyAudio ==
    [][~el =>
        \A r \in Req :
            /\ (pc[r] \in {"s_speech", "a_speech", "e_speech"} /\ Moves(r)) =>
                 /\ pc'[r] \in {"s_hash", "a_begin", "e_begin"}
                 /\ loc'[r].audio = <<>>
            /\ Commits(r) =>
                 LET reply == ReplyOf(resp'[r].data)
                     last == chats'[Len(chats')]
                 IN  /\ Len(chats') > Len(chats)
                     /\ last.role = ROLE_ASSISTANT
                     /\ last.text = reply.Text
                     /\ last.audio = <<>>
                     /\ reply.Audio = <<>>]_vars

\* without a backend, an Answer was committed and answered with empty audio
C20_Witness ==
    /\ ~el
    /\ \E r \in Req :
        /\ pc[r] = "done"
        /\ req[r].kind = "answer"
        /\ resp[r].status = 200
        /\ resp[r].data.Answer.Audio = <<>>

\* a provider reply the generators can use that carries no subtitle for the reply
LacksSubtitle(raw) ==
    /\ raw.kind = "json"
    /\ Field(raw.obj, "response", <<>>) # <<>>
    /\ "responseSubtitle" \notin DOMAIN raw.obj

\* what the generator of the handler r is in makes of the provider's reply
GeneratedAt(r, chat) ==
    LET history == ConvertToChatMessage(loc[r].entries)
    IN  CASE pc[r] = "s_generate" ->
                GenerateStartChat(req[r].body.Role, req[r].body.Topic,
                                  GetLanguageName(req[r].body.Language),
                                  loc[r].subtitleLanguage, chat)
          [] pc[r] = "a_generate" ->
                GenerateAnswerChat(history, loc[r].transcript, loc[r].subtitleLanguage, chat)
          [] OTHER -> GenerateEndChat(history, loc[r].subtitleLanguage, chat)

\* C21: with a subtitle language configured, a reply of the model that carries
\* no subtitle does not fail the generation step of Start, Answer or End, and
\* the turn that commits persists its turns and answers with an empty subtitle.
C21_MissingSubtitleNeverFails ==
    [][\A r \in Req :
        loc[r].subtitleLanguage # "" =>
            /\ pc[r] \in {"s_generate", "a_generate", "e_generate"} =>
                 \A chat \in ChatReplies :
                    (chat.err = NoErr /\ LacksSubtitle(chat.raw)) =>
                        /\ GeneratedAt(r, chat).err = NoErr
                        /\ GeneratedAt(r, chat).result.ResponseSubtitle = <<>>
            /\ (Commits(r) /\ LacksSubtitle(loc[r].rawJSON)) =>
                 /\ Len(chats') > Len(chats)
                 /\ ReplyOf(resp'[r].data).Subtitle = <<>>]_vars

\* an Answer of a session with a subtitle language was committed on a reply
\* without a subtitle
C21_Witness ==
    \E r \in Req :
        /\ pc[r] = "done"
        /\ req[r].kind = "answer"
        /\ resp[r].status = 200
        /\ loc[r].subtitleLanguage # ""
        /\ LacksSubtitle(loc[r].rawJSON)
        /\ resp[r].data.Answer.Subtitle = <<>>
        /\ Len(History(req[r].userID)) = 4

----------------------------------------------------------------------------
\* The transcript, the voice and the secret.

\* C22: in Answer the transcript of the recognizer is the one that counts: the
\* last message handed to the text model is a user message with that
\* transcript, and the committed user turn and the response's prompt text are
\* that transcript, whatever transcript the model's reply carries.
C22_TranscriptAuthoritative ==
    [][\A r \in Req :
        /\ (pc[r] = "a_generate" /\ pc'[r] = "a_speech") =>
             LET sent == loc'[r].messages
             IN  /\ Len(sent) = Len(loc[r].entries) + 1
                 /\ sent[Len(sent)] = [Role |-> ROLE_USER, Content |-> loc[r].transcript]
        /\ (pc[r] = "a_commit" /\ Commits(r)) =>
             /\ resp'[r].data.Prompt.Text = loc[r].transcript
             /\ Len(chats') = Len(chats) + 2
             /\ chats'[Len(chats') - 1].role = ROLE_USER
             /\ chats'[Len(chats') - 1].text = loc[r].transcript]_vars

\* an Answer was committed whose model reply carried a transcript of its own
C22_Witness ==
    \E r \in Req :
        /\ pc[r] = "done"
        /\ req[r].kind = "answer"
        /\ resp[r].status = 200
        /\ Field(loc[r].rawJSON.obj, "transcript", loc[r].transcript) # loc[r].transcript
        /\ resp[r].data.Prompt.Text = loc[r].transcript

\* C23: the voice is picked once, by Start, and stored in the session's row;
\* every synthesis an Answer or an End of the session makes is made with the
\* voice of that row.
C23_VoiceFixedAtStart ==
    [][\A r \in Req :
        /\ (pc[r] = "s_commit" /\ Commits(r)) =>
             /\ \E u \in chat_users' : u.ID = resp'[r].data.ID
             /\ \A u \in chat_users' : u.ID = resp'[r].data.ID => u.Voice = loc[r].voice
        /\ (el /\ pc[r] \in {"a_speech", "e_speech"} /\ pc'[r] \in {"a_begin", "e_begin"}) =>
             \E u \in GetChatUser(req[r].userID) :
                loc'[r].audio =
                    Base64(TextToSpeech(SanitizeString(loc[r].result.Response), u.Voice))]_vars

\* two sessions have different voices and an End of one of them was answered
\* with audio
C23_Witness ==
    /\ \E u, v \in chat_users : u.Voice # v.Voice
    /\ \E r \in Req :
        /\ pc[r] = "done"
        /\ req[r].kind = "end"
        /\ resp[r].status = 200
        /\ resp[r].data.Answer.Audio # <<>>

\* the texts a response carries besides a Start's Secret field
TextsOf(d) ==
    IF d.kind = "nil" THEN {}
    ELSE IF d.kind = "start" THEN {d.Chat.Text, d.Chat.Audio, d.Chat.Subtitle}
    ELSE {d.Prompt.Text, d.Prompt.Audio, d.Prompt.Subtitle,
          d.Answer.Text, d.Answer.Audio, d.Answer.Subtitle}

\* C24: the plaintext secret is never stored: every session row, committed or
\* pending in a transaction, holds the hash of a secret and no plaintext, no
\* turn holds a plaintext, and the only place a response carries a plaintext
\* is the Secret field of a Start's response, never an Answer's or an End's.
C24_PlaintextNeverPersisted ==
    /\ \A u \in chat_users :
        /\ u.Secret \notin PlainSecrets
        /\ \E p \in PlainSecrets : u.Secret = CreateHash(p)
    /\ \A r \in Req : \A i \in DOMAIN tx[r].users :
        tx[r].users[i].Secret \notin PlainSecrets
    /\ \A i \in DOMAIN chats : {chats[i].text, chats[i].audio} \cap PlainSecrets = {}
    /\ \A r \in Req :
        pc[r] = "done" =>
            /\ resp[r].message \notin PlainSecrets
            /\ TextsOf(resp[r].data) \cap PlainSecrets = {}
            /\ req[r].kind \in {"answer", "end"} => "Secret" \notin DOMAIN resp[r].data
            /\ (req[r].kind = "start" /\ resp[r].status = 200) =>
                   resp[r].data.Secret \in PlainSecrets

\* an Answer that presented the plaintext was committed and answered, and
\* the session's row holds the hash of that plaintext
C24_Witness ==
    \E q \in Req :
        /\ pc[q] = "done" /\ req[q].kind = "answer" /\ resp[q].status = 200
        /\ req[q].userSecret \in PlainSecrets
        /\ \E u \in chat_users : u.ID = req[q].userID
                                 /\ u.Secret = CreateHash(req[q].userSecret)

----------------------------------------------------------------------------
\* Extraction of the object from a model reply.

\* C25: stripping the fence is transparent: whatever the prefix and the
\* suffix, what is parsed from prefix + fenced block holding the payload +
\* suffix is what is parsed from the payload alone.
C25_FenceTransparent ==
    (extraction.at = "parsed" /\ extraction.form = "fenced") =>
        extraction.parsed = ParseObject(extractJSON(extraction.payload))

NoBrace(s) == \A i \in DOMAIN s : s[i] \notin {"{", "}"}

BraceThenBrace(s) == \E i, j \in DOMAIN s : i < j /\ s[i] = "{" /\ s[j] = "}"

\* C27: when the trimmed reply does not begin with a fence marker and has no
\* opening brace before a closing brace, the whole trimmed reply goes to the
\* parser as it is.
C27_NoObjectPassesThrough ==
    LET s == TrimSpace(extraction.rawResponse)
    IN  ( /\ extraction.at \in {"extracted", "parsed"}
          /\ ~HasPrefix(s, Fence)
          /\ ~BraceThenBrace(s) )
        => /\ extraction.jsonStr = s
           /\ extraction.at = "parsed" => extraction.parsed = ParseObject(s)

\* a reply whose only closing brace comes before its only opening brace went
\* to the parser trimmed and otherwise whole
C27_Witness ==
    /\ extraction.at = "parsed"
    /\ extraction.rawResponse = <<"\n", "}", "{", "\n">>
    /\ extraction.jsonStr = <<"}", "{">>
    /\ extraction.parsed.err # NoErr

\* C30: whenever the reply has an opening brace with a closing brace after
\* it, what extractJSON returns begins with the opening brace and ends with
\* the closing brace, also when the object stands in a fenced block with
\* other text around it inside the fence.
C30_ResultIsBracedObject ==
    ( /\ extraction.at \in {"extracted", "parsed"}
      /\ BraceThenBrace(extraction.rawResponse) )
    => /\ extraction.jsonStr # <<>>
       /\ Head(extraction.jsonStr) = "{"
       /\ extraction.jsonStr[Len(extraction.jsonStr)] = "}"

----------------------------------------------------------------------------
\* Overlapping turns and the order of the steps of a turn.

\* the statements of AnswerChat after the history was loaded
LoadedPcs ==
    {"a_file", "a_transcribe", "a_generate", "a_speech", "a_begin", "a_chats", "a_commit"}

\* C28: an Answer loads the history once, before its provider calls: the
\* messages it sends are built from the rows it loaded, whatever was committed
\* to the session since, and its commit appends its two turns to the history
\* as it then is without comparing it to the rows it loaded.
C28_OverlappingAnswersUncoordinated ==
    [][\A r \in Req :
        /\ (pc[r] \in LoadedPcs /\ Moves(r) /\ pc'[r] # "done") =>
             loc'[r].entries = loc[r].entries
        /\ (pc[r] = "a_generate" /\ pc'[r] = "a_speech") =>
             loc'[r].messages = AnswerMessages(ConvertToChatMessage(loc[r].entries),
                                               loc[r].transcript, loc[r].subtitleLanguage)
        /\ (pc[r] = "a_commit" /\ Commits(r)) =>
             /\ loc'[r].entries = loc[r].entries
             /\ History(req[r].userID)' = History(req[r].userID) \o AnswerEntries(r)]_vars

\* two Answers of one session were committed, and the reply committed second
\* was generated from the two rows of the Start alone
C28_Witness ==
    \E r \in Req :
        /\ pc[r] = "done"
        /\ req[r].kind = "answer"
        /\ resp[r].status = 200
        /\ Len(History(req[r].userID)) = 6
        /\ SubSeq(History(req[r].userID), 5, 6) = AnswerEntries(r)
        /\ Len(loc[r].entries) = 2
        /\ Len(loc[r].messages) = 3

\* the statements of AnswerChat in the order of the code: authenticate, load
\* the history, read the upload, recognize, generate and parse, synthesize,
\* persist
AnswerOrder ==
    << "a_getuser", "a_compare", "a_history", "a_file", "a_transcribe", "a_generate",
       "a_speech", "a_begin", "a_chats", "a_commit" >>

\* C29: an Answer takes its steps in the order of AnswerOrder, one at a time,
\* and goes on only when the step succeeded: a failed step ends the turn
\* without success, the history is loaded only for a matching secret, the
\* synthesis gets a parsed reply that is not empty, and no table and no
\* transaction is touched before the synthesis has returned.
C29_AnswerStepsInOrder ==
    [][\A r \in Req : \A i \in DOMAIN AnswerOrder :
        (pc[r] = AnswerOrder[i] /\ Moves(r)) =>
            /\ \/ pc'[r] = "done"
               \/ i < Len(AnswerOrder) /\ pc'[r] = AnswerOrder[i + 1]
            /\ (pc'[r] = "done" /\ resp'[r].status = 200) => i = Len(AnswerOrder)
            /\ pc'[r] = "a_history" => SecretMatches(r)
            /\ pc'[r] = "a_file" => loc'[r].entries = History(req[r].userID)
            /\ pc'[r] = "a_speech" =>
                 /\ Unmarshal(loc'[r].rawJSON).err = NoErr
                 /\ loc'[r].result.Response # <<>>
                 /\ loc'[r].messages # <<>>
            /\ pc'[r] = "a_begin" => (el => loc'[r].audio # <<>>)
            /\ (tx'[r] # tx[r] \/ chats' # chats \/ chat_users' # chat_users) =>
                 AnswerOrder[i] \in {"a_begin", "a_chats", "a_commit"}]_vars

\* an Answer went through every step, with a backend, and was committed
C29_Witness ==
    \E r \in Req :
        /\ pc[r] = "done"
        /\ req[r].kind = "answer"
        /\ resp[r].status = 200
        /\ el
        /\ SecretMatches(r)
        /\ loc[r].entries # <<>>
        /\ loc[r].transcript # <<>>
        /\ loc[r].audio # <<>>
        /\ Len(History(req[r].userID)) = Len(loc[r].entries) + 2

----------------------------------------------------------------------------
\* The instruction, the shape of a history, and what a response reports.

Instructions == {"json-instruction", "end-instruction"}

\* the first system message of a history, 0 if it has none
FirstSystem(history) == 
    LET systems == {i \in DOMAIN history : history[i].Role = ROLE_SYSTEM}
    IN  IF systems = {} THEN 0 ELSE CHOOSE i \in systems : \A j \in systems : i <= j

\* C31: the instruction goes into a copy of the history: the messages an
\* Answer or an End sends are the history it loaded with the instruction
\* appended to the first system message and every other message as it was
\* (an Answer adds the transcript as the last message), the loaded history
\* and the tables are as before, and no system turn in table chats ever
\* holds the instruction.
C31_InstructionOnlyInCopy ==
    [][/\ \A r \in Req :
            (pc[r] \in {"a_generate", "e_generate"} /\ pc'[r] \in {"a_speech", "e_speech"}) =>
                LET history == ConvertToChatMessage(loc[r].entries)
                    sent == loc'[r].messages
                    first == FirstSystem(history)
                    instruction == IF pc[r] = "a_generate"
                                   THEN JsonInstruction(loc[r].subtitleLanguage)
                                   ELSE EndInstruction(loc[r].subtitleLanguage)
                IN  /\ Len(sent) = Len(history) + (IF pc[r] = "a_generate" THEN 1 ELSE 0)
                    /\ \A i \in DOMAIN history : i # first => sent[i] = history[i]
                    /\ first # 0 =>
                         /\ sent[first].Role = ROLE_SYSTEM
                         /\ sent[first].Content =
                                history[first].Content \o <<"\n\n">> \o instruction
                    /\ loc'[r].entries = loc[r].entries
                    /\ chats' = chats
       /\ \A i \in DOMAIN chats' :
            chats'[i].role = ROLE_SYSTEM =>
                \A k \in DOMAIN chats'[i].text : chats'[i].text[k] \notin Instructions]_vars

\* an End sent the instruction in its copy, and the session's system turn in
\* the table is the prompt without it
C31_Witness ==
    \E r \in Req :
        /\ pc[r] = "done"
        /\ req[r].kind = "end"
        /\ resp[r].status = 200
        /\ \E k \in DOMAIN loc[r].messages[1].Content :
                loc[r].messages[1].Content[k] = "end-instruction"
        /\ History(req[r].userID)[1].role = ROLE_SYSTEM
        /\ \A k \in DOMAIN History(req[r].userID)[1].text :
                History(req[r].userID)[1].text[k] \notin Instructions

\* system, assistant, then batches of user and assistant or of assistant alone
WellShaped(h) ==
    \/ h = <<>>
    \/ /\ Len(h) >= 2
       /\ h[1].role = ROLE_SYSTEM
       /\ h[2].role = ROLE_ASSISTANT
       /\ h[Len(h)].role = ROLE_ASSISTANT
       /\ \A i \in 3..Len(h) :
            /\ h[i].role \in {ROLE_USER, ROLE_ASSISTANT}
            /\ h[i].role = ROLE_USER =>
                 /\ h[i - 1].role = ROLE_ASSISTANT
                 /\ i < Len(h) /\ h[i + 1].role = ROLE_ASSISTANT

\* C32: whatever the interleaving of the turns, every session's history is
\* system, assistant, then batches of (user, assistant) or (assistant), ending
\* with an assistant turn; a step that adds to a history is the commit of one
\* request and adds the whole batch of that request, its rows side by side.
C32_HistoryShape ==
    [][\A id \in IDs :
        /\ WellShaped(History(id)')
        /\ History(id)' # History(id) =>
             \E r \in Req :
                /\ Commits(r)
                /\ Len(tx[r].chats) = BatchSize(req[r].kind)
                /\ \A i \in DOMAIN tx[r].chats : tx[r].chats[i].chat_user_id = id
                /\ History(id)' = History(id) \o tx[r].chats]_vars

\* an Answer was committed to a session after an End that overlapped it: the
\* Answer had loaded the history before the End's turn was there
C32_Witness ==
    \E r \in Req :
        /\ pc[r] = "done"
        /\ req[r].kind = "answer"
        /\ resp[r].status = 200
        /\ Len(loc[r].entries) = 2
        /\ Len(History(req[r].userID)) = 5
        /\ History(req[r].userID)[3].role = ROLE_ASSISTANT
        /\ History(req[r].userID)[4].role = ROLE_USER

\* C33: what a turn answers with 200 is what it committed: the step that
\* answers 200 is the commit, the rows of the request are then the last rows
\* of the table, and the text and the audio the response reports are those of
\* these rows: Start's chat, Answer's prompt text and answer, End's answer.
C33_ResponseAgreesWithPersisted ==
    [][\A r \in Req :
        (pc'[r] = "done" /\ pc[r] # "done" /\ resp'[r].status = 200) =>
            LET d == resp'[r].data
                n == Len(chats')
                reply == ReplyOf(d)
            IN  /\ pc[r] \in {"s_commit", "a_commit", "e_commit"}
                /\ tx[r].open /\ ~tx'[r].open
                /\ n = Len(chats) + BatchSize(req[r].kind)
                /\ chats'[n].role = ROLE_ASSISTANT
                /\ chats'[n].text = reply.Text
                /\ chats'[n].audio = reply.Audio
                /\ chats'[n].chat_user_id =
                        (IF d.kind = "start" THEN d.ID ELSE req[r].userID)
                /\ d.kind = "answer" =>
                     /\ chats'[n - 1].role = ROLE_USER
                     /\ chats'[n - 1].text = d.Prompt.Text
                     /\ chats'[n - 1].chat_user_id = req[r].userID]_vars

\* an End was answered 200 with audio, and the session's last turn holds the
\* text and the audio of the response
C33_Witness ==
    \E r \in Req :
        /\ pc[r] = "done"
        /\ req[r].kind = "end"
        /\ resp[r].status = 200
        /\ resp[r].data.Answer.Audio # <<>>
        /\ LET h == History(req[r].userID)
           IN  /\ h[Len(h)].text = resp[r].data.Answer.Text
               /\ h[Len(h)].audio = resp[r].data.Answer.Audio

----------------------------------------------------------------------------
\* The health report.

\* C34: when the status page answered, the status reported is the worst one
\* among the listed components named Chat Completions and Audio, wherever
\* they stand in the list and whatever the other components are, and unknown
\* when neither is listed; the API is reported up for operational, down for
\* the three other levels and null for unknown.
C34_WorstTargetStatus ==
    (health.at = "done" /\ health.fetch = "ok") =>
        LET Severity(status) ==
                CASE status = STATUS_MAJOR_OUTAGE -> 3
                  [] status = STATUS_PARTIAL_OUTAGE -> 2
                  [] status = STATUS_DEGRADED_PERFORMANCE -> 1
                  [] OTHER -> 0
            found == {health.components[i].Status :
                        i \in {j \in DOMAIN health.components :
                                health.components[j].Name \in targetComponents}}
            worst == CHOOSE w \in found : \A x \in found : Severity(x) <= Severity(w)
            status == IF found = {} THEN STATUS_UNKNOWN ELSE worst
        IN  /\ health.response.code = 200
            /\ health.response.ApiStatus = status
            /\ health.response.API =
                    (IF status = STATUS_OPERATIONAL THEN "true"
                     ELSE IF status = STATUS_UNKNOWN THEN "null" ELSE "false")

\* a page that lists a degraded target, then a partial outage of the other
\* target, then another component in major outage
C34_Witness ==
    /\ health.at = "done"
    /\ health.fetch = "ok"
    /\ health.components =
        << [Name |-> "Audio", Status |-> STATUS_PARTIAL_OUTAGE],
           [Name |-> "Chat Completions", Status |-> STATUS_DEGRADED_PERFORMANCE],
           [Name |-> "Images", Status |-> STATUS_MAJOR_OUTAGE] >>
    /\ health.response.ApiStatus = STATUS_PARTIAL_OUTAGE
    /\ health.response.API = "false"

----------------------------------------------------------------------------
\* The conversation language of a session.

\* C35: a supported language code given at Start comes back through
\* GetLanguage and GetCode unchanged, so every Answer and End response of the
\* session reports that code; after a Start with an unsupported or empty code
\* they report en-US.
C35_LanguageRoundTrip ==
    /\ startLanguage \in DOMAIN CodeToLanguage
            => GetCode(GetLanguage(startLanguage)) = startLanguage
    /\ \A r \in Req :
        (pc[r] = "done" /\ resp[r].status = 200 /\ req[r].kind \in {"answer", "end"}) =>
            resp[r].data.Language =
                (IF startLanguage \in DOMAIN CodeToLanguage THEN startLanguage
                 ELSE "en-US")

\* an Answer of a session started in Japanese reports ja-JP
C35_Witness ==
    \E r \in Req :
        /\ pc[r] = "done" /\ resp[r].status = 200 /\ req[r].kind = "answer"
        /\ startLanguage = "ja-JP"
        /\ resp[r].data.Language = "ja-JP"

----------------------------------------------------------------------------
\* The chat screen's requests.

\* C36: the chat screen has at most one Answer or End request in flight at
\* any moment, and sends no Answer request once hasEnded is set, whatever the
\* order of the record, stop and End clicks and of the completions of the
\* recorder's stop, the WAV conversion and the fetches.
C36_OneTurnAtATime ==
    [][ /\ screen'.answers + screen'.ends <= 1
        /\ screen'.answers > screen.answers => ~screen.hasEnded ]_vars
============================================================================
